---------------------------- MODULE Spec2Model ----------------------------
(***************************************************************************)
(* Model of the FinTagging extraction-and-linking pipeline.                *)
(*                                                                         *)
(*   finniController  (identifyNumericEntities, callGeminiAPI,             *)
(*                     ruleBasedNumericExtraction)                         *)
(*   finclController  (linkConcepts, processFinCL)                         *)
(*   localStorage     (saveResult, getResultsByReportId, getReport,        *)
(*                     updateReportStatus)                                 *)
(*   datasetLoader    (evaluateFinNIPredictions, evaluateFinCLPredictions) *)
(*   evaluationController (evaluateResults)                                *)
(*   uploadController (uploadFile) and processFinNI, the orchestrator      *)
(*   authController   (signup .. deleteAccount), authMiddleware,           *)
(*                     authStorage                                         *)
(*                                                                         *)
(* Conventions.  JavaScript strings are TLA+ strings; positions are        *)
(* 1-based (JavaScript index + 1).  Numbers with a fraction (confidence)   *)
(* are kept in hundredths: 0.8 is 80.  null and undefined are the values   *)
(* Null and Undefined for string-valued fields and NullObject elsewhere.    *)
(***************************************************************************)
EXTENDS Integers, Sequences, FiniteSets, TLC

\* identifyNumericEntities and callGeminiAPI
VARIABLES
  env,          \* process.env: is GEMINI_API_KEY set, USE_LOCAL_EXTRACTION
  text,         \* the argument of identifyNumericEntities
  niPc,         \* "start", "call", "wait", "returned", "threw"
  attempt,      \* i of the retry loop of callGeminiAPI
  oracleCalls,  \* calls of model.generateContent made by callGeminiAPI
  failures,     \* attempts that threw
  lastResp,     \* the oracle's answer to the latest attempt
  sentText,     \* the part of the text in the latest prompt chunk
  delays,       \* the setTimeout delays of the retry loop, in ms
  niResult,     \* the value identifyNumericEntities returned
  niSource      \* which return statement: "local", "oracle", "fallback"

\* processFinCL and linkConcepts
VARIABLES
  entities,       \* req.body.entities of the processFinCL request
  fcPc,           \* "idle", "attempt", "backoff", "linked", "done"
  batches,        \* the batches built so far: batchStart, batchEnd, prompt ids
  outcomes,       \* per finished batch: "accepted" or "exhausted"
  linkAttempt,    \* attempt of the retry loop of the current batch
  linkCalls,      \* calls of model.generateContent made by linkConcepts
  lastTry,        \* the latest attempt: its batch, its response, accepted?
  linkDelays,     \* the setTimeout delays of the retry loops, in ms
  allMappings,    \* the accumulated, re-indexed mappings
  linkPath,       \* "oracle": linkConcepts returned; "secondary": it threw
  linkedEntities, \* linkedEntities of processFinCL
  resultsFile,    \* results.json (time stamps left out)
  fcResponse      \* the HTTP response of processFinCL

\* evaluateResults
VARIABLES
  evPc,           \* "off", "request", "done"
  taskType,       \* req.body.taskType
  predictions,    \* req.body.predictions
  goldStandard,   \* the gold items of the sample that was drawn
  metrics,        \* what evaluateFinNIPredictions / evaluateFinCLPredictions returned
  evResponse      \* the HTTP response of evaluateResults

\* uploadFile, processFinNI and localStorage
VARIABLES
  reports,        \* reports.json: id, status, fileName of each report
  runs            \* the processFinNI requests: where each one is

\* concurrent calls of localStorage.saveResult
VARIABLES
  saves,          \* the saveResult calls: where each one is, what it holds
  now,            \* Date.now()
  fsFailed        \* readFile or writeFile caught an error of fs

\* the auth routes and authMiddleware
VARIABLES
  users,          \* authStorage.users: id -> user
  sessions,       \* authStorage.sessions, one session per token
  authTime,       \* Date.now(), in seconds
  authTicks,      \* how often time has advanced
  userCount,      \* users created so far
  issued,         \* the tokens generateToken has returned so far
  revoked,        \* the tokens logged out, and those of deleted accounts
  lastAuth        \* the latest request to an auth route and its answer

Null == "<null>"
Undefined == "<undefined>"

Min(a, b) == IF a < b THEN a ELSE b
Max(a, b) == IF a > b THEN a ELSE b

-----------------------------------------------------------------------------
(* Strings                                                                 *)

Digits == {"0", "1", "2", "3", "4", "5", "6", "7", "8", "9"}
LowerLetters == {"a", "b", "c", "d", "e", "f", "g", "h", "i", "j", "k", "l", "m",
                 "n", "o", "p", "q", "r", "s", "t", "u", "v", "w", "x", "y", "z"}
UpperLetters == {"A", "B", "C", "D", "E", "F", "G", "H", "I", "J", "K", "L", "M",
                 "N", "O", "P", "Q", "R", "S", "T", "U", "V", "W", "X", "Y", "Z"}
WordChars == Digits \cup LowerLetters \cup UpperLetters \cup {"_"}
Spaces == {" ", "\n", "\t"}

\* s.charAt(p - 1); the empty string outside the string
Ch(s, p) == IF p >= 1 /\ p <= Len(s) THEN SubSeq(s, p, p) ELSE ""

LowerOf ==
  [c \in UpperLetters |->
     CASE c = "A" -> "a" [] c = "B" -> "b" [] c = "C" -> "c" [] c = "D" -> "d"
       [] c = "E" -> "e" [] c = "F" -> "f" [] c = "G" -> "g" [] c = "H" -> "h"
       [] c = "I" -> "i" [] c = "J" -> "j" [] c = "K" -> "k" [] c = "L" -> "l"
       [] c = "M" -> "m" [] c = "N" -> "n" [] c = "O" -> "o" [] c = "P" -> "p"
       [] c = "Q" -> "q" [] c = "R" -> "r" [] c = "S" -> "s" [] c = "T" -> "t"
       [] c = "U" -> "u" [] c = "V" -> "v" [] c = "W" -> "w" [] c = "X" -> "x"
       [] c = "Y" -> "y" [] c = "Z" -> "z"]

RECURSIVE toLowerCase(_)
toLowerCase(s) ==
  IF s = "" THEN ""
  ELSE LET c == SubSeq(s, 1, 1)
       IN (IF c \in UpperLetters THEN LowerOf[c] ELSE c)
            \o toLowerCase(SubSeq(s, 2, Len(s)))

\* s.includes(k)
includes(s, k) ==
  \E i \in 1..(Len(s) - Len(k) + 1) : SubSeq(s, i, i + Len(k) - 1) = k

\* s.replace(/,/g, '')
RECURSIVE stripCommas(_)
stripCommas(s) ==
  IF s = "" THEN ""
  ELSE LET c == SubSeq(s, 1, 1)
       IN (IF c = "," THEN "" ELSE c) \o stripCommas(SubSeq(s, 2, Len(s)))

\* s.replace(/\s+/g, ' '): every run of white space becomes one blank
RECURSIVE collapseSpaces(_, _)
collapseSpaces(s, inRun) ==
  IF s = "" THEN ""
  ELSE LET c == SubSeq(s, 1, 1)
           rest == SubSeq(s, 2, Len(s))
       IN IF c \in Spaces
            THEN (IF inRun THEN "" ELSE " ") \o collapseSpaces(rest, TRUE)
            ELSE c \o collapseSpaces(rest, FALSE)

\* s.trim()
trim(s) ==
  LET keep == {p \in 1..Len(s) : Ch(s, p) \notin Spaces}
  IN IF keep = {} THEN ""
     ELSE LET lo == CHOOSE p \in keep : \A q \in keep : p <= q
              hi == CHOOSE p \in keep : \A q \in keep : p >= q
          IN SubSeq(s, lo, hi)

\* the regular expression assertion \b at the gap before position p
WordBoundary(s, p) == (Ch(s, p - 1) \in WordChars) # (Ch(s, p) \in WordChars)

\* length of the run of digits that starts at p, cut at cap
DigitRun(s, p, cap) ==
  CHOOSE k \in 0..cap :
    /\ \A j \in 0..(k - 1) : Ch(s, p + j) \in Digits
    /\ k = cap \/ Ch(s, p + k) \notin Digits


-----------------------------------------------------------------------------
(* Rule-Based Extractor: ruleBasedNumericExtraction                        *)

\* [0-9]{1,3}(?:,[0-9]{3})*(?:\.[0-9]+)? matched greedily at p.  The ends
\* are exclusive: e0 after the leading digits, e1 after the comma groups,
\* e2 after the decimal part.
RECURSIVE CommaGroups(_, _)
CommaGroups(s, e) ==
  IF Ch(s, e) = "," /\ DigitRun(s, e + 1, 3) = 3
    THEN CommaGroups(s, e + 4)
    ELSE e

DecimalEnd(s, e1) ==
  IF Ch(s, e1) = "." /\ Ch(s, e1 + 1) \in Digits
    THEN e1 + 1 + DigitRun(s, e1 + 1, Len(s))
    ELSE e1

NumberEnds(s, p, e0, e1) ==
  [ok |-> e0 > p, e0 |-> e0, e1 |-> e1, e2 |-> DecimalEnd(s, e1)]

NumberFrom(s, p, e0) == NumberEnds(s, p, e0, CommaGroups(s, e0))

NumberAt(s, p) == NumberFrom(s, p, p + DigitRun(s, p, 3))

\* (?:\bUSD\b|\bEUR\b|\bGBP\b|[$€£]) with flag i: length of the prefix at p
CurrencyAt(s, p) ==
  IF Ch(s, p) \in {"$", "€", "£"} THEN 1
  ELSE IF /\ p + 2 <= Len(s)
          /\ toLowerCase(SubSeq(s, p, p + 2)) \in {"usd", "eur", "gbp"}
          /\ WordBoundary(s, p)
          /\ WordBoundary(s, p + 3)
         THEN 3
         ELSE 0

\* \s? before the number: where the number starts when the prefix ends at q
NumberStart(s, q) ==
  IF Ch(s, q) \in Spaces /\ Ch(s, q + 1) \in Digits THEN q + 1 ELSE q

\* a match: [start, end) is m[0], [num, numEnd) the number, cur the length
\* of the currency prefix
Match(ok, start, num, numEnd, end, cur) ==
  [ok |-> ok, start |-> start, num |-> num, numEnd |-> numEnd, end |-> end,
   cur |-> cur]

\* moneyRegex at p.  The second alternative of the number group is never
\* tried: the first one matches whenever a digit is there and nothing
\* follows the group.
MoneyNumber(p, c, ns, n) == Match(c > 0 /\ n.ok, p, ns, n.e2, n.e2, c)
MoneyFrom(s, p, c, ns) == MoneyNumber(p, c, ns, NumberAt(s, ns))
MoneyWith(s, p, c) == MoneyFrom(s, p, c, NumberStart(s, p + c))
MoneyAt(s, p) == MoneyWith(s, p, CurrencyAt(s, p))

\* pctRegex at p: the number, at most one white space, '%'.  Backtracking
\* into the number leaves a digit, '.' or ',' as the next character, so
\* only the greedy number can be followed by the '%'.
PctEnd(s, e2) ==
  IF Ch(s, e2) = "%" THEN e2 + 1
  ELSE IF Ch(s, e2) \in Spaces /\ Ch(s, e2 + 1) = "%" THEN e2 + 2
  ELSE 0
PctMatch(p, n, e) == Match(n.ok /\ e > 0, p, p, n.e2, e, 0)
PctNumber(s, p, n) == PctMatch(p, n, PctEnd(s, n.e2))
PctAt(s, p) == PctNumber(s, p, NumberAt(s, p))

\* numRegex at p: \b, the number, \b.  When the greedy number is followed
\* by a word character the engine backtracks: it drops the decimal part
\* (next character '.'), else the last comma group (next character ',').
NumEnd(s, n) ==
  IF WordBoundary(s, n.e2) THEN n.e2
  ELSE IF n.e2 > n.e1 THEN n.e1
  ELSE IF n.e1 > n.e0 THEN n.e1 - 4
  ELSE 0
NumMatch(s, p, n, e) == Match(n.ok /\ WordBoundary(s, p) /\ e > 0, p, p, e, e, 0)
NumNumber(s, p, n) == NumMatch(s, p, n, NumEnd(s, n))
NumAt(s, p) == NumNumber(s, p, NumberAt(s, p))

\* while ((m = regex.exec(inputText)) !== null): the matches of a global
\* regular expression, each search starting where the last match ended
RECURSIVE ExecAll(_, _)
ExecFrom(cands, m) == <<m>> \o ExecAll(cands, m.end)
ExecAll(cands, lastIndex) ==
  IF \A m \in cands : m.start < lastIndex THEN <<>>
  ELSE ExecFrom(cands,
         CHOOSE x \in cands :
           /\ x.start >= lastIndex
           /\ \A y \in cands : y.start >= lastIndex => x.start <= y.start)

MoneyMatches(s) == ExecAll({m \in {MoneyAt(s, p) : p \in 1..Len(s)} : m.ok}, 1)
PctMatches(s) == ExecAll({m \in {PctAt(s, p) : p \in 1..Len(s)} : m.ok}, 1)
NumMatches(s) == ExecAll({m \in {NumAt(s, p) : p \in 1..Len(s)} : m.ok}, 1)

MoneyEntity(s, m) ==
  [value |-> stripCommas(SubSeq(s, m.num, m.numEnd - 1)),
   type |-> "monetary",
   description |-> "Found monetary value: " \o SubSeq(s, m.start, m.end - 1),
   unit |-> SubSeq(s, m.start, m.start + m.cur - 1),
   period |-> Null,
   confidence |-> 80]

PctEntity(s, m) ==
  [value |-> stripCommas(SubSeq(s, m.num, m.numEnd - 1)),
   type |-> "percentage",
   description |-> "Found percentage: " \o SubSeq(s, m.start, m.end - 1),
   unit |-> "%",
   period |-> Null,
   confidence |-> 80]

\* regex.test(context) for an alternation of literal words, flag i
TestWords(lower, words) == \E w \in words : includes(lower, w)

\* /share|shares|issued|outstanding/i, then /year|fy|q[1-4]|quarter|as of/i
ContextType(lower) ==
  IF TestWords(lower, {"share", "shares", "issued", "outstanding"}) THEN "shares"
  ELSE IF TestWords(lower, {"year", "fy", "q1", "q2", "q3", "q4", "quarter", "as of"})
    THEN "date"
  ELSE "count"

NumTyped(s, m, context, type) ==
  [value |-> stripCommas(SubSeq(s, m.start, m.end - 1)),
   type |-> type,
   description |-> "Context: " \o trim(collapseSpaces(context, FALSE)),
   unit |-> IF type = "shares" THEN "shares" ELSE Null,
   period |-> Null,
   confidence |-> 60]

NumInContext(s, m, context) ==
  NumTyped(s, m, context, ContextType(toLowerCase(context)))

\* the context is the 40 characters before the match and the 40 from its start
NumEntity(s, m) ==
  NumInContext(s, m, SubSeq(s, Max(1, m.start - 40), Min(Len(s), m.start + 39)))

\* Faulty variant of dedup that returns every pushed entity
dedupKeepsAll(pushed, seen) == pushed

\* Faulty variant of dedup that puts each kept entity in front of the ones
\* kept before it (unshift in place of push)
RECURSIVE dedupUnshift(_, _)
dedupUnshift(pushed, seen) ==
  IF pushed = <<>> THEN <<>>
  ELSE IF Head(pushed).value \o "||" \o Head(pushed).type \in seen
    THEN dedupUnshift(Tail(pushed), seen)
  ELSE dedupUnshift(Tail(pushed),
                    seen \cup {Head(pushed).value \o "||" \o Head(pushed).type})
         \o <<Head(pushed)>>

\* Deduplicate by value+type, the first occurrence is kept
RECURSIVE dedup(_, _)
dedup(pushed, seen) ==
  IF pushed = <<>> THEN <<>>
  ELSE IF Head(pushed).value \o "||" \o Head(pushed).type \in seen
    THEN dedup(Tail(pushed), seen)
  ELSE <<Head(pushed)>>
         \o dedup(Tail(pushed),
                  seen \cup {Head(pushed).value \o "||" \o Head(pushed).type})

\* the entities pushed by the three passes, in the order of the pushes
Pushed(s, mm, pm, nm) ==
  [i \in 1..Len(mm) |-> MoneyEntity(s, mm[i])]
    \o [i \in 1..Len(pm) |-> PctEntity(s, pm[i])]
    \o [i \in 1..Len(nm) |-> NumEntity(s, nm[i])]

Candidates(s) == Pushed(s, MoneyMatches(s), PctMatches(s), NumMatches(s))

ruleBasedNumericExtraction(inputText) == dedup(Candidates(inputText), {})

-----------------------------------------------------------------------------
(* Oracle responses to the extraction prompt                               *)
(*                                                                         *)
(* A response is a transport error (generateContent rejects) or a text.    *)
(* A text is its code fence and its body.  fence: "none", "json" (opened   *)
(* by ```json, closed by ```), "plain" (opened and closed by ```), "open"   *)
(* (a leading ``` only).  body.form: "cut" (the text does not end in '}'   *)
(* or ']'), "garbled" (it ends in '}' and is not JSON), "json" (the JSON   *)
(* document body.doc).  An array in a document is [array |-> <<..>>], any  *)
(* other value of a key is [scalar |-> ..]; null is NullObject.            *)

NullObject == [null |-> TRUE]

Retries == 2
maxChunkLength == 30000
PromptHeadLen == 1462
PromptTailLen == 9

OracleEntity1 ==
  [value |-> "1,234.56", type |-> "Monetary",
   description |-> "Revenue for fiscal year", unit |-> "USD",
   period |-> "FY 2021", confidence |-> 95]
\* no confidence
OracleEntity2 ==
  [value |-> "12.5", type |-> "PERCENTAGE",
   description |-> "Growth rate", unit |-> "%", period |-> Null]
\* no value, no type, confidence 0
OracleEntity3 ==
  [description |-> "Total assets", unit |-> "USD", period |-> Null,
   confidence |-> 0]

OracleEntityLists ==
  { <<>>,
    <<OracleEntity1>>,
    <<OracleEntity1, OracleEntity2, OracleEntity3>>,
    <<OracleEntity1, NullObject>> }

ExtractionDocs ==
  {[entities |-> [array |-> l]] : l \in OracleEntityLists}
    \cup {[entities |-> [scalar |-> "none"]],
          [mappings |-> [array |-> <<>>]],
          [array |-> <<>>]}

ExtractionBodies ==
  {[form |-> "cut"], [form |-> "garbled"]}
    \cup {[form |-> "json", doc |-> d] : d \in ExtractionDocs}

ExtractionResponses ==
  {[transport |-> TRUE]}
    \cup {[transport |-> FALSE, fence |-> f, body |-> b] :
            f \in {"none", "json", "plain"}, b \in ExtractionBodies}

\* responseText.replace(/```json\s*/g, '').replace(/```\s*$/g, '').trim()
stripFences(t) ==
  [t EXCEPT !.fence = CASE t.fence = "json"  -> "none"
                        [] t.fence = "plain" -> "open"
                        [] OTHER             -> t.fence]

\* responseText.endsWith('}') || responseText.endsWith(']')
endsWithClose(t) == t.body.form # "cut"

\* JSON.parse(responseText) returns (it does not throw)
jsonParses(t) == t.fence = "none" /\ t.body.form = "json"

\* parsed.entities && Array.isArray(parsed.entities)
hasEntitiesArray(doc) ==
  "entities" \in DOMAIN doc /\ "array" \in DOMAIN doc.entities

\* Faulty variant of makeApiCall, without the check of lines 75-78 that the
\* parsed response has an entities array
makeApiCallUnvalidated(resp) ==
  IF resp.transport
    THEN [ok |-> FALSE, error |-> "transport error"]
  ELSE IF ~endsWithClose(stripFences(resp))
    THEN [ok |-> FALSE, error |-> "Incomplete JSON response from API"]
  ELSE IF ~jsonParses(stripFences(resp))
    THEN [ok |-> FALSE, error |-> "Invalid JSON from API"]
  ELSE [ok |-> TRUE, responseText |-> stripFences(resp)]

\* one oracle call of callGeminiAPI: its value or the error it throws
makeApiCall(resp) ==
  IF resp.transport
    THEN [ok |-> FALSE, error |-> "transport error"]
  ELSE LET responseText == stripFences(resp)
       IN IF ~endsWithClose(responseText)
            THEN [ok |-> FALSE, error |-> "Incomplete JSON response from API"]
          ELSE IF ~jsonParses(responseText)
            THEN [ok |-> FALSE, error |-> "Invalid JSON from API"]
          ELSE IF ~hasEntitiesArray(responseText.body.doc)
            THEN [ok |-> FALSE,
                  error |-> "Invalid JSON structure - missing entities array"]
          ELSE [ok |-> TRUE, responseText |-> responseText]

\* prompt.length > maxChunkLength ? prompt.substring(0, maxChunkLength) : prompt,
\* as the part of the document text that is in the prompt chunk
promptChunkText(inputText) ==
  IF PromptHeadLen + Len(inputText) + PromptTailLen > maxChunkLength
    THEN SubSeq(inputText, 1, Min(Len(inputText), Max(0, maxChunkLength - PromptHeadLen)))
    ELSE inputText

\* the post-processing of one oracle entity
normalizeEntity(entity) ==
  LET confidence == IF "confidence" \in DOMAIN entity /\ entity.confidence # 0
                      THEN entity.confidence ELSE 90
      value == IF "value" \in DOMAIN entity THEN stripCommas(entity.value) ELSE ""
      type  == IF "type" \in DOMAIN entity THEN toLowerCase(entity.type) ELSE ""
  IN [f \in DOMAIN entity \cup {"confidence", "value", "type"} |->
        CASE f = "confidence" -> confidence
          [] f = "value"      -> value
          [] f = "type"       -> type
          [] OTHER            -> entity[f]]

\* the body of the try block of identifyNumericEntities after callGeminiAPI
\* returned resultText: the result, or the exception thrown
parseAndNormalize(resultText) ==
  IF ~(jsonParses(resultText) /\ hasEntitiesArray(resultText.body.doc))
    THEN [ok |-> FALSE, error |-> "Invalid JSON response from API"]
  ELSE LET parsedEntities == resultText.body.doc.entities.array
       IN IF \E k \in 1..Len(parsedEntities) : parsedEntities[k] = NullObject
            THEN [ok |-> FALSE, error |-> "TypeError"]
            ELSE [ok |-> TRUE,
                  result |-> [entities |->
                     [k \in 1..Len(parsedEntities) |-> normalizeEntity(parsedEntities[k])]]]

-----------------------------------------------------------------------------
(* Entity Extraction Engine: identifyNumericEntities and callGeminiAPI     *)

LongPad == 30000

RECURSIVE Repeat(_, _)
Repeat(s, n) ==
  IF n = 0 THEN ""
  ELSE IF n % 2 = 0 THEN LET h == Repeat(s, n \div 2) IN h \o h
  ELSE s \o Repeat(s, n - 1)

\* a document longer than the prompt chunk, with a number behind the cut
LongText == "Cash was $5" \o Repeat(" ", LongPad) \o "and the margin 7%"

Texts ==
  { "Revenue was $1,234.56 and grew 12.5% to 1,000,000 shares outstanding",
    "FY 2023 revenue USD 1,200 and EUR 1,200",
    "12 units, 12 units and 3.5x as of Q3",
    "no numbers here",
    "",
    LongText }

\* process.env
Environments ==
  [GEMINI_API_KEY : BOOLEAN, USE_LOCAL_EXTRACTION : {Undefined, "true", "1"}]

niVars == <<text, niPc, attempt, oracleCalls, failures, lastResp, sentText,
            delays, niResult, niSource>>

\* the extractor's results, computed once per text
RuleBasedPairs == {<<t, ruleBasedNumericExtraction(t)>> : t \in Texts}
RuleBasedOf(t) == (CHOOSE p \in RuleBasedPairs : p[1] = t)[2]

NoResponse == [none |-> TRUE]

\* Faulty variant of useLocal that ignores USE_LOCAL_EXTRACTION
useLocalKeyOnly(e) == ~e.GEMINI_API_KEY

\* process.env.USE_LOCAL_EXTRACTION === 'true' || !process.env.GEMINI_API_KEY
useLocal(e) == e.USE_LOCAL_EXTRACTION = "true" \/ ~e.GEMINI_API_KEY

InitExtract ==
  /\ env \in Environments
  /\ text \in Texts
  /\ niPc = "start"
  /\ attempt = 0
  /\ oracleCalls = 0
  /\ failures = 0
  /\ lastResp = NoResponse
  /\ sentText = ""
  /\ delays = <<>>
  /\ niResult = NullObject
  /\ niSource = "none"

\* the state identifyNumericEntities leaves behind when it returns
Returned(result, source) == [pc |-> "returned", result |-> result, source |-> source]

\* what identifyNumericEntities does once callGeminiAPI has settled with
\* `call` (makeApiCall's value, or the error the retry loop rethrows): the
\* rest of the try block, and the catch block, which returns the rule-based
\* entities `local` of the whole text
afterParse(r, local) ==
  IF r.ok THEN Returned(r.result, "oracle")
  ELSE Returned([entities |-> local], "fallback")

\* Faulty variant of afterCall, without the catch block of lines 292-298:
\* the error of callGeminiAPI escapes identifyNumericEntities
afterCallRethrows(call, local) ==
  IF ~call.ok THEN [pc |-> "threw", result |-> NullObject, source |-> "none"]
  ELSE afterParse(parseAndNormalize(call.responseText), local)

afterCall(call, local) ==
  IF ~call.ok THEN Returned([entities |-> local], "fallback")
  ELSE afterParse(parseAndNormalize(call.responseText), local)

\* lines 213-218: the local path
ExtractLocal ==
  /\ niPc = "start"
  /\ useLocal(env)
  /\ niResult' = [entities |-> RuleBasedOf(text)]
  /\ niSource' = "local"
  /\ niPc' = "returned"
  /\ UNCHANGED <<env, text, attempt, oracleCalls, failures, lastResp,
                 sentText, delays>>

\* lines 220-260 and 14-17: the prompt is built and callGeminiAPI entered;
\* without a key callGeminiAPI throws at once
ExtractBegin ==
  /\ niPc = "start"
  /\ ~useLocal(env)
  /\ \E a \in {IF env.GEMINI_API_KEY
                 THEN [pc |-> "call", result |-> niResult, source |-> niSource]
                 ELSE afterCall([ok |-> FALSE], RuleBasedOf(text))} :
       /\ niPc' = a.pc
       /\ niResult' = a.result
       /\ niSource' = a.source
  /\ attempt' = 0
  /\ UNCHANGED <<env, text, oracleCalls, failures, lastResp, sentText, delays>>

\* lines 84-99: attempt i of the retry loop, answered by resp; after the
\* last attempt, or a good one, identifyNumericEntities runs to its return
AttemptSettles(call, a) ==
  /\ niPc' = a.pc
  /\ niResult' = a.result
  /\ niSource' = a.source
  /\ failures' = IF call.ok THEN failures ELSE failures + 1
  /\ UNCHANGED delays

\* Faulty variant of AttemptRetries: the wait is 1000 ms every time
AttemptRetriesFixedWait ==
  /\ niPc' = "wait"
  /\ failures' = failures + 1
  /\ delays' = Append(delays, 1000)
  /\ UNCHANGED <<niResult, niSource>>

AttemptRetries ==
  /\ niPc' = "wait"
  /\ failures' = failures + 1
  /\ delays' = Append(delays, 1000 * (attempt + 1))
  /\ UNCHANGED <<niResult, niSource>>

OracleAttempt(resp) ==
  /\ niPc = "call"
  /\ oracleCalls' = oracleCalls + 1
  /\ lastResp' = resp
  /\ sentText' = promptChunkText(text)
  /\ \E call \in {makeApiCall(resp)} :
       IF call.ok \/ attempt >= Retries
         THEN \E a \in {afterCall(call, RuleBasedOf(text))} :
                AttemptSettles(call, a)
         ELSE AttemptRetries
  /\ UNCHANGED <<env, text, attempt>>

\* line 91: the backoff timer fires, the loop goes to its next iteration
BackoffElapsed ==
  /\ niPc = "wait"
  /\ attempt' = attempt + 1
  /\ niPc' = "call"
  /\ UNCHANGED <<env, text, oracleCalls, failures, lastResp, sentText, delays,
                 niResult, niSource>>

-----------------------------------------------------------------------------
(* Concept Linking Engine: the keyword rules                               *)

BATCH_SIZE == 40
MAX_RETRIES == 3

Tag(concept, confidence) ==
  [concept |-> concept, taxonomy |-> "us-gaap", confidence |-> confidence]

\* a condition of an if of the rule chains: desc.includes(w) for every w of
\* has and for no w of hasNot; a rule holds when one of its conditions does
Has(words) == [has |-> words, hasNot |-> {}]

\* lines 701-754: the rule chain of linkConcepts, in the order of its ifs
EnhancedRules ==
  << [when |-> {Has({"revenue"}), Has({"sales"}), Has({"service revenue"})},
      tag |-> Tag("us-gaap:Revenue", 60)],
     [when |-> {Has({"net income"}), Has({"net profit"}), Has({"net loss"})},
      tag |-> Tag("us-gaap:NetIncomeLoss", 60)],
     [when |-> {Has({"operating income"}), Has({"operating profit"})},
      tag |-> Tag("us-gaap:OperatingIncomeLoss", 60)],
     [when |-> {Has({"gross profit"}), Has({"gross margin"})},
      tag |-> Tag("us-gaap:GrossProfit", 60)],
     [when |-> {Has({"pretax income"}), Has({"income before tax"}),
                Has({"earnings before tax"})},
      tag |-> Tag("us-gaap:IncomeLossFromContinuingOperationsBeforeIncomeTaxesExtraordinaryItemsNoncontrollingInterest", 60)],
     [when |-> {Has({"depreciation", "expense"})},
      tag |-> Tag("us-gaap:DepreciationDepletionAndAmortization", 60)],
     [when |-> {Has({"interest expense"})},
      tag |-> Tag("us-gaap:InterestExpense", 60)],
     [when |-> {Has({"tax expense"}), Has({"income tax"})},
      tag |-> Tag("us-gaap:IncomeTaxExpenseBenefit", 60)],
     [when |-> {Has({"wage"}), Has({"salary"}), Has({"payroll"})},
      tag |-> Tag("us-gaap:LaborAndRelatedExpense", 60)],
     [when |-> {Has({"supplies expense"})},
      tag |-> Tag("us-gaap:SuppliesExpense", 60)],
     [when |-> {Has({"operating expense"}), Has({"total operating"})},
      tag |-> Tag("us-gaap:OperatingExpenses", 60)],
     [when |-> {Has({"cost of goods"}), Has({"cost of revenue"}), Has({"cogs"})},
      tag |-> Tag("us-gaap:CostOfRevenue", 60)],
     [when |-> {Has({"total assets"}),
                [has |-> {"assets"}, hasNot |-> {"liabilities"}]},
      tag |-> Tag("us-gaap:Assets", 60)],
     [when |-> {Has({"total liabilities"})},
      tag |-> Tag("us-gaap:Liabilities", 60)],
     [when |-> {Has({"cash"}), Has({"cash equivalents"})},
      tag |-> Tag("us-gaap:CashAndCashEquivalentsAtCarryingValue", 60)],
     [when |-> {Has({"retained earnings"})},
      tag |-> Tag("us-gaap:RetainedEarningsAccumulatedDeficit", 60)],
     [when |-> {Has({"stockholders equity"}), Has({"shareholders equity"}),
                Has({"total equity"})},
      tag |-> Tag("us-gaap:StockholdersEquity", 60)],
     [when |-> {Has({"accounts receivable"}), Has({"receivables"})},
      tag |-> Tag("us-gaap:AccountsReceivableNetCurrent", 60)],
     [when |-> {Has({"accounts payable"}), Has({"payables"})},
      tag |-> Tag("us-gaap:AccountsPayableCurrent", 60)],
     [when |-> {Has({"inventory"}), Has({"inventories"})},
      tag |-> Tag("us-gaap:InventoryNet", 60)],
     [when |-> {Has({"shares outstanding"}), Has({"shares issued"})},
      tag |-> Tag("us-gaap:WeightedAverageNumberOfSharesOutstandingBasic", 60)],
     [when |-> {Has({"earnings per share"}), Has({"eps"})},
      tag |-> Tag("us-gaap:EarningsPerShareBasic", 60)],
     [when |-> {Has({"dividends"})},
      tag |-> Tag("us-gaap:Dividends", 60)] >>

\* lines 790-800: the rule chain of the catch block of processFinCL
ReducedRules ==
  << [when |-> {Has({"revenue"}), Has({"sales"})},
      tag |-> Tag("us-gaap:Revenue", 70)],
     [when |-> {Has({"net income"}), Has({"net profit"})},
      tag |-> Tag("us-gaap:NetIncomeLoss", 70)],
     [when |-> {Has({"operating income"})},
      tag |-> Tag("us-gaap:OperatingIncomeLoss", 70)],
     [when |-> {Has({"assets", "total"})},
      tag |-> Tag("us-gaap:Assets", 70)],
     [when |-> {Has({"expense"})},
      tag |-> Tag("us-gaap:OperatingExpenses", 60)] >>

RuleHolds(rule, desc) ==
  \E c \in rule.when :
    /\ \A w \in c.has : includes(desc, w)
    /\ \A w \in c.hasNot : ~includes(desc, w)

\* Faulty variant of FirstRule: the last rule that holds decides
LastRule(rules, desc) ==
  LET holding == {i \in 1..Len(rules) : RuleHolds(rules[i], desc)}
  IN IF holding = {} THEN NullObject
     ELSE rules[CHOOSE i \in holding : \A j \in holding : j <= i].tag

\* if ... else if ...: the tag of the first rule that holds, else null
RECURSIVE FirstRule(_, _)
FirstRule(rules, desc) ==
  IF rules = <<>> THEN NullObject
  ELSE IF RuleHolds(Head(rules), desc) THEN Head(rules).tag
  ELSE FirstRule(Tail(rules), desc)

-----------------------------------------------------------------------------
(* Concept Linking Engine: requests and oracle responses                   *)

MaxEntities == 41

\* descriptions of request entities
DescPool ==
  << "Total revenue for fiscal year",
     "Net loss attributable to parent",
     "Found monetary value: $1,234.56",
     "Total Assets",
     "Interest expense",
     "Context: 1,000,000 shares outstanding",
     "",
     "Cash, assets and liabilities",
     "Net sales less cost of goods sold" >>

\* entity number k (from 0) of a request whose descriptions start at shift
EntityAt(k, shift) ==
  [value |-> ToString(k),
   type |-> "monetary",
   description |-> DescPool[((k + shift) % Len(DescPool)) + 1],
   unit |-> "USD",
   period |-> Null,
   confidence |-> 80]

RequestSizes == {0, 1, BATCH_SIZE, MaxEntities}

\* req.body.entities
Requests ==
  {[k \in 1..n |-> EntityAt(k - 1, shift)] : n \in RequestSizes, shift \in {0, 3}}

\* the strings the rule chains are asked about
LinkTexts ==
  {DescPool[i] : i \in 1..Len(DescPool)} \cup {ToString(k) : k \in 0..MaxEntities}

\* (entity.description || entity.value || '')
descriptionOrValue(entity) ==
  IF "description" \in DOMAIN entity /\ entity.description # ""
    THEN entity.description
  ELSE IF "value" \in DOMAIN entity THEN entity.value
  ELSE ""

\* (entity.description || '')
descriptionOnly(entity) ==
  IF "description" \in DOMAIN entity THEN entity.description ELSE ""

\* the rule chains' tags, computed once per string
EnhancedTagPairs == {<<d, FirstRule(EnhancedRules, toLowerCase(d))>> : d \in LinkTexts}
ReducedTagPairs == {<<d, FirstRule(ReducedRules, toLowerCase(d))>> : d \in LinkTexts}
EnhancedTagOf(d) == (CHOOSE p \in EnhancedTagPairs : p[1] = d)[2]
ReducedTagOf(d) == (CHOOSE p \in ReducedTagPairs : p[1] = d)[2]

\* { ...object, ...fields }
Spread(object, fields) ==
  [f \in DOMAIN object \cup DOMAIN fields |->
     IF f \in DOMAIN fields THEN fields[f] ELSE object[f]]

\* The oracle's answers to the prompt of a batch of batchLen entities.  The
\* mappings array of an answer has a shape: how many mappings ("full": one
\* per entity, "threshold": the least count that is 70%, "below": one less,
\* "none"), which entityId they carry ("own": 0, 1, ..; "next": the ids of
\* the batch after; "first": all 0), which have an xbrlTag ("all", or
\* "alternate": every second one is null), whether they carry an
\* explanation, and whether the last element is null.
Shape(count, ids, tags, explanations, nullEntry) ==
  [count |-> count, ids |-> ids, tags |-> tags, explanations |-> explanations,
   nullEntry |-> nullEntry]

MappingShapes ==
  { Shape("full", "own", "all", TRUE, FALSE),
    Shape("threshold", "own", "all", TRUE, FALSE),
    Shape("below", "own", "all", TRUE, FALSE),
    Shape("none", "own", "all", TRUE, FALSE),
    Shape("full", "own", "alternate", TRUE, FALSE),
    Shape("full", "own", "all", FALSE, FALSE),
    Shape("full", "next", "all", TRUE, FALSE),
    Shape("full", "first", "all", TRUE, FALSE),
    Shape("full", "own", "all", TRUE, TRUE) }

\* the least count c with c >= 0.7 * batchLen
ThresholdCount(batchLen) == (7 * batchLen + 9) \div 10

MappingCount(shape, batchLen) ==
  CASE shape.count = "full"      -> batchLen
    [] shape.count = "threshold" -> ThresholdCount(batchLen)
    [] shape.count = "below"     -> ThresholdCount(batchLen) - 1
    [] OTHER                     -> 0

OracleTag == Tag("us-gaap:Revenue", 95)

\* element j (from 1) of the mappings array
MappingBase(shape, batchLen, j) ==
  [entityId |-> CASE shape.ids = "own"  -> j - 1
                  [] shape.ids = "next" -> j - 1 + batchLen
                  [] OTHER              -> 0,
   xbrlTag |-> IF shape.tags = "alternate" /\ j % 2 = 0
                 THEN NullObject ELSE OracleTag]

MappingAt(shape, batchLen, j, count) ==
  IF shape.nullEntry /\ j = count THEN NullObject
  ELSE IF shape.explanations
    THEN Spread(MappingBase(shape, batchLen, j), [explanation |-> "Service revenue"])
  ELSE MappingBase(shape, batchLen, j)

MappingsOfCount(shape, batchLen, count) ==
  [j \in 1..count |-> MappingAt(shape, batchLen, j, count)]

MappingsOf(shape, batchLen) ==
  MappingsOfCount(shape, batchLen, MappingCount(shape, batchLen))

JsonText(fence, doc) ==
  [transport |-> FALSE, fence |-> fence, body |-> [form |-> "json", doc |-> doc]]

LinkingResponses(batchLen) ==
  { [transport |-> TRUE],
    [transport |-> FALSE, fence |-> "none", body |-> [form |-> "garbled"]],
    JsonText("none", NullObject),
    JsonText("none", [entities |-> [array |-> <<>>]]),
    JsonText("none", [mappings |-> [scalar |-> "none"]]),
    JsonText("json", [mappings |->
       [array |-> MappingsOf(Shape("full", "own", "all", TRUE, FALSE), batchLen)]]),
    JsonText("plain", [mappings |->
       [array |-> MappingsOf(Shape("full", "own", "all", TRUE, FALSE), batchLen)]]) }
    \cup {JsonText("none", [mappings |-> [array |-> MappingsOf(sh, batchLen)]]) :
            sh \in MappingShapes}

-----------------------------------------------------------------------------
(* Concept Linking Engine: linkConcepts and processFinCL                   *)

linkVars == <<entities, fcPc, batches, outcomes, linkAttempt, linkCalls,
              lastTry, linkDelays, allMappings, linkPath, linkedEntities,
              resultsFile, fcResponse>>

NoResponseYet == [status |-> 0, success |-> FALSE]

\* Faulty variant of Batch whose slice takes one entity too many
BatchOverlapping(batchStart, n) ==
  [batchStart |-> batchStart,
   batchEnd |-> Min(batchStart + BATCH_SIZE + 1, n),
   ids |-> 0..(Min(batchStart + BATCH_SIZE + 1, n) - batchStart - 1)]

\* the batch built by the loop header at batchStart (ends are exclusive):
\* entities.slice(batchStart, batchEnd), listed in the prompt with id 0, 1, ..
Batch(batchStart, n) ==
  [batchStart |-> batchStart,
   batchEnd |-> Min(batchStart + BATCH_SIZE, n),
   ids |-> 0..(Min(batchStart + BATCH_SIZE, n) - batchStart - 1)]

BatchLen(b) == b.batchEnd - b.batchStart

\* parsed.mappings.map(m => ({ ...m, entityId: m.entityId + batchStart }))
adjustedMappings(mappings, batchStart) ==
  [j \in 1..Len(mappings) |->
     [mappings[j] EXCEPT !.entityId = mappings[j].entityId + batchStart]]

\* Faulty variant of acceptMappings whose threshold is the
\* Math.floor(batch.length * 0.7) of the error message of line 653
acceptMappingsFloor(mappings, batchLen, batchStart) ==
  IF Len(mappings) < (7 * batchLen) \div 10 THEN [ok |-> FALSE]
  ELSE IF \E j \in 1..Len(mappings) : mappings[j] = NullObject THEN [ok |-> FALSE]
  ELSE [ok |-> TRUE, mappings |-> adjustedMappings(mappings, batchStart)]

\* Faulty variant of acceptMappings without the threshold of line 652
acceptMappingsAnyCount(mappings, batchLen, batchStart) ==
  IF \E j \in 1..Len(mappings) : mappings[j] = NullObject THEN [ok |-> FALSE]
  ELSE [ok |-> TRUE, mappings |-> adjustedMappings(mappings, batchStart)]

\* lines 639-665: the try block of one attempt on response resp; ok with
\* the mappings to push, or not ok when anything in it throws
acceptMappings(mappings, batchLen, batchStart) ==
  IF 10 * Len(mappings) < 7 * batchLen THEN [ok |-> FALSE]
  ELSE IF \E j \in 1..Len(mappings) : mappings[j] = NullObject THEN [ok |-> FALSE]
  ELSE [ok |-> TRUE, mappings |-> adjustedMappings(mappings, batchStart)]

acceptParsed(parsed, batchLen, batchStart) ==
  IF parsed = NullObject THEN [ok |-> FALSE]
  ELSE IF "mappings" \notin DOMAIN parsed THEN [ok |-> FALSE]
  ELSE IF "array" \notin DOMAIN parsed.mappings THEN [ok |-> FALSE]
  ELSE acceptMappings(parsed.mappings.array, batchLen, batchStart)

tryBatch(resp, batchLen, batchStart) ==
  IF resp.transport THEN [ok |-> FALSE]
  ELSE IF ~jsonParses(stripFences(resp)) THEN [ok |-> FALSE]
  ELSE acceptParsed(resp.body.doc, batchLen, batchStart)

\* allMappings.find(m => m.entityId === index), null when there is none
findMapping(mappings, index) ==
  IF \A j \in 1..Len(mappings) : mappings[j].entityId # index THEN NullObject
  ELSE mappings[CHOOSE j \in 1..Len(mappings) :
                  /\ mappings[j].entityId = index
                  /\ \A i \in 1..(j - 1) : mappings[i].entityId # index]

\* lines 697-760: the keyword fallback of one entity
explainRule(entity, xbrlTag) ==
  Spread(entity,
         [xbrlTag |-> xbrlTag,
          mappingExplanation |->
            IF xbrlTag # NullObject THEN "Rule-based mapping (fallback)"
            ELSE "No suitable US-GAAP mapping found"])

\* Faulty variant of ruleBasedLink that never finds a rule
ruleBasedLinkUntagged(entity) == explainRule(entity, NullObject)

ruleBasedLink(entity) ==
  explainRule(entity, EnhancedTagOf(descriptionOrValue(entity)))

\* lines 688-695: the entity with its oracle mapping, when it has one that
\* carries an xbrlTag
applyMapping(entity, mapping) ==
  IF mapping # NullObject /\ "xbrlTag" \in DOMAIN mapping
       /\ mapping.xbrlTag # NullObject
    THEN Spread(entity,
                [xbrlTag |-> mapping.xbrlTag,
                 mappingExplanation |->
                   IF "explanation" \in DOMAIN mapping THEN mapping.explanation
                   ELSE Undefined])
    ELSE ruleBasedLink(entity)

\* Faulty variant of applyMappings that filters: it returns the entities
\* that have a mapping and drops the others
applyMappingsMappedOnly(ents, mappings) ==
  LET kept == {k \in 1..Len(ents) : findMapping(mappings, k - 1) # NullObject}
      nth(i) == CHOOSE k \in kept : Cardinality({j \in kept : j < k}) = i - 1
  IN [i \in 1..Cardinality(kept) |->
        applyMapping(ents[nth(i)], findMapping(mappings, nth(i) - 1))]

\* lines 687-761: the value linkConcepts returns
applyMappings(ents, mappings) ==
  [k \in 1..Len(ents) |-> applyMapping(ents[k], findMapping(mappings, k - 1))]

\* lines 785-803: the catch block of processFinCL
secondaryLink(ents) ==
  [k \in 1..Len(ents) |->
     Spread(ents[k], [xbrlTag |-> ReducedTagOf(descriptionOnly(ents[k]))])]

\* lines 808-818: one element of formattedEntities
formatEntity(entity) ==
  [value |-> entity.value,
   entityType |-> entity.type,
   confidence |-> entity.confidence,
   location |-> IF "location" \in DOMAIN entity THEN entity.location
                ELSE [pageNum |-> 1, coordinates |-> Null],
   xbrlTag |-> entity.xbrlTag,
   mappingExplanation |-> IF "mappingExplanation" \in DOMAIN entity
                            THEN entity.mappingExplanation ELSE Undefined]

\* formattedEntities.filter(e => e.xbrlTag).length
mappedCount(formatted) ==
  Cardinality({k \in 1..Len(formatted) : formatted[k].xbrlTag # NullObject})

\* lines 824-838: resultData; a metric mappedCount / length is kept as the
\* pair of its numerator and denominator
resultDataOf(formatted) ==
  [reportId |-> "report-1",
   modelName |-> "Gemini 2.5 Flash",
   taskType |-> "FinCL",
   results |-> [predictions |-> formatted,
                metrics |-> [mappedCount |-> mappedCount(formatted),
                             length |-> Len(formatted)]],
   processingTime |-> 1500]

formattedEntities(linked) == [k \in 1..Len(linked) |-> formatEntity(linked[k])]

InitLink ==
  /\ entities \in Requests
  /\ fcPc = "idle"
  /\ batches = <<>>
  /\ outcomes = <<>>
  /\ linkAttempt = 0
  /\ linkCalls = 0
  /\ lastTry = [none |-> TRUE]
  /\ linkDelays = <<>>
  /\ allMappings = <<>>
  /\ linkPath = "none"
  /\ linkedEntities = <<>>
  /\ resultsFile = <<>>
  /\ fcResponse = NoResponseYet

\* linkConcepts leaves its for loop and returns
LoopEnds(mappings) ==
  /\ fcPc' = "linked"
  /\ linkPath' = "oracle"
  /\ linkedEntities' = applyMappings(entities, mappings)
  /\ UNCHANGED <<batches, linkAttempt>>

\* the for loop goes to the iteration of batchStart, if there is one
LoopTo(batchStart, mappings) ==
  IF batchStart < Len(entities)
    THEN /\ fcPc' = "attempt"
         /\ batches' = Append(batches, Batch(batchStart, Len(entities)))
         /\ linkAttempt' = 1
         /\ UNCHANGED <<linkPath, linkedEntities>>
    ELSE LoopEnds(mappings)

\* Faulty variant of FinCLStart, without the catch block of lines 782-805:
\* the error of linkConcepts reaches the outer catch, which responds 500
FinCLStartSurfaces ==
  /\ fcPc = "idle"
  /\ IF ~env.GEMINI_API_KEY
       THEN /\ fcPc' = "done"
            /\ fcResponse' = [status |-> 500, success |-> FALSE]
            /\ UNCHANGED <<batches, linkAttempt, linkPath, linkedEntities>>
       ELSE LoopTo(0, allMappings) /\ UNCHANGED fcResponse
  /\ UNCHANGED <<env, entities, outcomes, linkCalls, lastTry, linkDelays,
                 allMappings, resultsFile>>

\* lines 770-805: processFinCL receives the request and calls linkConcepts,
\* which throws at once without a key: the catch block links by the reduced
\* rules; with a key the loop is entered
FinCLStart ==
  /\ fcPc = "idle"
  /\ IF ~env.GEMINI_API_KEY
       THEN /\ fcPc' = "linked"
            /\ linkPath' = "secondary"
            /\ linkedEntities' = secondaryLink(entities)
            /\ UNCHANGED <<batches, linkAttempt>>
       ELSE LoopTo(0, allMappings)
  /\ UNCHANGED <<env, entities, outcomes, linkCalls, lastTry, linkDelays,
                 allMappings, resultsFile, fcResponse>>

\* Faulty variant of BatchTry whose wait is 2^(attempt - 1) * 1000 ms
BatchTryEarlyPower(b, resp, try) ==
  /\ linkCalls' = linkCalls + 1
  /\ lastTry' = [batch |-> b, attempt |-> linkAttempt, resp |-> resp,
                 accepted |-> try.ok]
  /\ IF try.ok
       THEN /\ allMappings' = allMappings \o try.mappings
            /\ outcomes' = Append(outcomes, "accepted")
            /\ LoopTo(b.batchStart + BATCH_SIZE, allMappings \o try.mappings)
            /\ UNCHANGED linkDelays
     ELSE IF linkAttempt = MAX_RETRIES
       THEN /\ outcomes' = Append(outcomes, "exhausted")
            /\ LoopTo(b.batchStart + BATCH_SIZE, allMappings)
            /\ UNCHANGED <<allMappings, linkDelays>>
     ELSE /\ fcPc' = "backoff"
          /\ linkDelays' = Append(linkDelays, (2 ^ (linkAttempt - 1)) * 1000)
          /\ UNCHANGED <<allMappings, outcomes, batches, linkAttempt, linkPath,
                         linkedEntities>>

\* lines 635-681: one attempt on the current batch b, answered by resp
BatchTry(b, resp, try) ==
  /\ linkCalls' = linkCalls + 1
  /\ lastTry' = [batch |-> b, attempt |-> linkAttempt, resp |-> resp,
                 accepted |-> try.ok]
  /\ IF try.ok
       THEN /\ allMappings' = allMappings \o try.mappings
            /\ outcomes' = Append(outcomes, "accepted")
            /\ LoopTo(b.batchStart + BATCH_SIZE, allMappings \o try.mappings)
            /\ UNCHANGED linkDelays
     ELSE IF linkAttempt = MAX_RETRIES
       THEN /\ outcomes' = Append(outcomes, "exhausted")
            /\ LoopTo(b.batchStart + BATCH_SIZE, allMappings)
            /\ UNCHANGED <<allMappings, linkDelays>>
     ELSE /\ fcPc' = "backoff"
          /\ linkDelays' = Append(linkDelays, (2 ^ linkAttempt) * 1000)
          /\ UNCHANGED <<allMappings, outcomes, batches, linkAttempt, linkPath,
                         linkedEntities>>

BatchAttempt ==
  /\ fcPc = "attempt"
  /\ \E b \in {batches[Len(batches)]} :
       \E resp \in LinkingResponses(BatchLen(b)) :
         \E try \in {tryBatch(resp, BatchLen(b), b.batchStart)} :
           BatchTry(b, resp, try)
  /\ UNCHANGED <<env, entities, resultsFile, fcResponse>>

\* line 679: the backoff timer fires, the retry loop goes on
LinkBackoffElapsed ==
  /\ fcPc = "backoff"
  /\ linkAttempt' = linkAttempt + 1
  /\ fcPc' = "attempt"
  /\ UNCHANGED <<env, entities, batches, outcomes, linkCalls, lastTry,
                 linkDelays, allMappings, linkPath, linkedEntities, resultsFile,
                 fcResponse>>

\* lines 807-849: the entities are formatted, the result saved, 200 sent
FinCLRespond ==
  /\ fcPc = "linked"
  /\ resultsFile' = Append(resultsFile, resultDataOf(formattedEntities(linkedEntities)))
  /\ fcResponse' = [status |-> 200, success |-> TRUE]
  /\ fcPc' = "done"
  /\ UNCHANGED <<env, entities, batches, outcomes, linkAttempt, linkCalls,
                 lastTry, linkDelays, allMappings, linkPath, linkedEntities>>

-----------------------------------------------------------------------------
(* Evaluation Engine: datasetLoader and evaluateResults                     *)
(*                                                                         *)
(* A JavaScript number that is the quotient of two counts is kept exact,   *)
(* as [num, den] in lowest terms; the rounding of doubles is left out.     *)

\* the number 0 / 0
NaN == [nan |-> TRUE]

\* the number n / 0 for a positive n
Infinity == [inf |-> TRUE]

\* n / d for integers n >= 0 and d >= 0
Frac(n, d) ==
  LET RECURSIVE Gcd(_, _)
      Gcd(a, b) == IF b = 0 THEN a ELSE Gcd(b, a % b)
  IN IF d = 0 THEN (IF n = 0 THEN NaN ELSE Infinity)
     ELSE [num |-> n \div Gcd(n, d), den |-> d \div Gcd(n, d)]

\* Faulty variant of OrZero: the quotient is kept as it is
KeepQuotient(x) == x

\* x || 0: NaN and 0 are falsy
OrZero(x) == IF x = NaN \/ x = Frac(0, 1) THEN Frac(0, 1) ELSE x

\* lines 151 and 194: 2 * ((precision * recall) / (precision + recall)) || 0;
\* arithmetic on NaN gives NaN
f1Score(precision, recall) ==
  IF precision = NaN \/ recall = NaN THEN OrZero(NaN)
  ELSE
    LET prod == Frac(precision.num * recall.num, precision.den * recall.den)
        sum  == Frac(precision.num * recall.den + recall.num * precision.den,
                     precision.den * recall.den)
        quot == IF sum.num = 0 THEN (IF prod.num = 0 THEN NaN ELSE Infinity)
                ELSE Frac(prod.num * sum.den, prod.den * sum.num)
    IN OrZero(IF quot \in {NaN, Infinity} THEN quot
              ELSE Frac(2 * quot.num, quot.den))

\* parseFloat(s): white space is skipped, then the longest prefix of the
\* form digits [. digits] or . digits is read; NaN when there is no digit.
\* A sign or an exponent is not read: the values below have none.
parseFloat(s) ==
  LET RECURSIVE Blanks(_)
      Blanks(p) == IF Ch(s, p) \in Spaces THEN Blanks(p + 1) ELSE p - 1
      RECURSIVE ValueOf(_, _)
      ValueOf(p, n) ==
        IF n = 0 THEN 0
        ELSE 10 * ValueOf(p, n - 1)
               + (CHOOSE v \in 0..9 : ToString(v) = Ch(s, p + n - 1))
      RECURSIVE Pow10(_)
      Pow10(n) == IF n = 0 THEN 1 ELSE 10 * Pow10(n - 1)
      first   == Blanks(1) + 1
      intLen  == DigitRun(s, first, Len(s))
      fracLen == IF Ch(s, first + intLen) = "."
                   THEN DigitRun(s, first + intLen + 1, Len(s)) ELSE 0
  IN IF intLen = 0 /\ fracLen = 0 THEN NaN
     ELSE Frac(ValueOf(first, intLen) * Pow10(fracLen)
                 + ValueOf(first + intLen + 1, fracLen),
               Pow10(fracLen))

\* lines 200-206
_isMatchingEntity(pred, gold) ==
  LET a == parseFloat(pred.value)
      b == parseFloat(gold.value)
      diff == a.num * b.den - b.num * a.den
  IN /\ pred.value = gold.value
     /\ pred.type = gold.type
     \* Math.abs(a - b) < 0.01; false when a or b is NaN
     /\ a # NaN /\ b # NaN
     /\ 100 * (IF diff < 0 THEN -diff ELSE diff) < a.den * b.den

\* e.xbrlTag?.concept
conceptOf(e) ==
  IF "xbrlTag" \in DOMAIN e /\ e.xbrlTag # NullObject
     /\ "concept" \in DOMAIN e.xbrlTag
    THEN e.xbrlTag.concept ELSE Undefined

\* lines 98-155
evaluateFinNIPredictions(preds, gold) ==
  LET found(g) == {p \in 1..Len(preds) : _isMatchingEntity(preds[p], g)}
      \* predictions.find: the first matching prediction
      find(g) == preds[CHOOSE p \in found(g) : \A q \in found(g) : p <= q]
      goldResults ==
        [k \in 1..Len(gold) |->
           IF found(gold[k]) # {}
             THEN [status |-> "correct", predicted |-> find(gold[k]),
                   actual |-> gold[k]]
             ELSE [status |-> "missed", predicted |-> NullObject,
                   actual |-> gold[k]]]
      hasNoMatch(pred) ==
        ~ \E k \in 1..Len(gold) : _isMatchingEntity(pred, gold[k])
      unmatched == SelectSeq(preds, hasNoMatch)
      truePositives  == Cardinality({k \in 1..Len(gold) : found(gold[k]) # {}})
      falseNegatives == Len(gold) - truePositives
      falsePositives == Len(unmatched)
      precision == OrZero(Frac(truePositives, truePositives + falsePositives))
      recall    == OrZero(Frac(truePositives, truePositives + falseNegatives))
  IN [precision |-> precision,
      recall    |-> recall,
      f1Score   |-> f1Score(precision, recall),
      accuracy  |-> OrZero(Frac(truePositives, Len(gold))),
      detailedResults |->
        goldResults \o
        [i \in 1..Len(unmatched) |->
           [status |-> "false_positive", predicted |-> unmatched[i],
            actual |-> NullObject]]]

\* lines 158-198
evaluateFinCLPredictions(preds, gold) ==
  LET found(g) == {p \in 1..Len(preds) : conceptOf(preds[p]) = conceptOf(g)}
      find(g) == preds[CHOOSE p \in found(g) : \A q \in found(g) : p <= q]
      correctMappings == Cardinality({k \in 1..Len(gold) : found(gold[k]) # {}})
      precision == OrZero(Frac(correctMappings, Len(preds)))
      recall    == OrZero(Frac(correctMappings, Len(gold)))
  IN [precision |-> precision,
      recall    |-> recall,
      f1Score   |-> f1Score(precision, recall),
      accuracy  |-> OrZero(Frac(correctMappings, Len(gold))),
      detailedResults |->
        [k \in 1..Len(gold) |->
           IF found(gold[k]) # {}
             THEN [status |-> "correct", predicted |-> find(gold[k]),
                   actual |-> gold[k]]
             ELSE [status |-> "incorrect", predicted |-> NullObject,
                   actual |-> gold[k]]]]

\* The requests and the data sets

MaxPredictions == 2

\* the cached FinNI-eval samples, lines 33-39
FinNIDataset ==
  {[entities |-> <<>>],
   [entities |-> <<[value |-> "100", type |-> "monetary"]>>],
   [entities |-> <<[value |-> "n/a", type |-> "monetary"]>>],
   [entities |-> <<[value |-> "100", type |-> "monetary"],
                   [value |-> "250", type |-> "percentage"]>>]}

\* the cached FinCL-eval samples, lines 59-65
FinCLDataset ==
  {[mappings |-> <<>>],
   [mappings |-> <<[xbrlTag |-> [concept |-> "Revenue"]]>>],
   [mappings |-> <<[xbrlTag |-> [concept |-> "Revenue"]],
                   [xbrlTag |-> [concept |-> "Revenue"]]>>],
   [mappings |-> <<[xbrlTag |-> [concept |-> "Revenue"]],
                   [xbrlTag |-> [concept |-> "Assets"]]>>]}

\* req.body of evaluateResults: taskType and predictions.  The predictions
\* are entities of an extraction or items of a linking.
EvalRequests ==
  LET SeqsUpTo(S, n) == UNION {[1..k -> S] : k \in 0..n}
      EvalEntities ==
        {[value |-> v, type |-> t] :
           v \in {"100", "100.00", "100.005", "250", "n/a"},
           t \in {"monetary", "percentage"}}
      EvalMappings ==
        {[xbrlTag |-> [concept |-> c]] : c \in {"Revenue", "Assets"}}
          \cup {[xbrlTag |-> NullObject]}
  IN {[taskType |-> "FinNI", predictions |-> ps] :
        ps \in SeqsUpTo(EvalEntities, MaxPredictions)}
     \cup {[taskType |-> "FinCL", predictions |-> ps] :
             ps \in SeqsUpTo(EvalMappings, MaxPredictions)}
     \cup {[taskType |-> tt, predictions |-> ps] :
             tt \in {"Extraction", "finni", Undefined},
             ps \in SeqsUpTo(EvalMappings, 1)}

evalVars == <<evPc, taskType, predictions, goldStandard, metrics, evResponse>>

\* Faulty variant of evaluate: a task type that is not 'FinNI' is scored as
\* a linking task
evaluateAnyTask(tt, preds) ==
  IF tt = "FinNI"
    THEN {[threw |-> FALSE, goldStandard |-> s.entities,
           metrics |-> evaluateFinNIPredictions(preds, s.entities)] :
            s \in FinNIDataset}
    ELSE {[threw |-> FALSE, goldStandard |-> s.mappings,
           metrics |-> evaluateFinCLPredictions(preds, s.mappings)] :
            s \in FinCLDataset}

\* part_009 lines 12-22: the outcomes of the try block up to the metrics,
\* one for each sample getFinNIEvalSample / getFinCLEvalSample can draw
evaluate(tt, preds) ==
  IF tt = "FinNI"
    THEN {[threw |-> FALSE, goldStandard |-> s.entities,
           metrics |-> evaluateFinNIPredictions(preds, s.entities)] :
            s \in FinNIDataset}
  ELSE IF tt = "FinCL"
    THEN {[threw |-> FALSE, goldStandard |-> s.mappings,
           metrics |-> evaluateFinCLPredictions(preds, s.mappings)] :
            s \in FinCLDataset}
  ELSE {[threw |-> TRUE, message |-> "Invalid task type"]}

\* no evaluateResults request is made
EvalIdle ==
  /\ evPc = "off"
  /\ taskType = Undefined
  /\ predictions = <<>>
  /\ goldStandard = <<>>
  /\ metrics = NullObject
  /\ evResponse = NoResponseYet

InitEval ==
  /\ evPc = "request"
  /\ \E req \in EvalRequests :
       /\ taskType = req.taskType
       /\ predictions = req.predictions
  /\ goldStandard = <<>>
  /\ metrics = NullObject
  /\ evResponse = NoResponseYet
  /\ resultsFile = <<>>

\* part_009 lines 4-53: evaluateResults
EvaluateResults ==
  /\ evPc = "request"
  /\ \E out \in evaluate(taskType, predictions) :
       IF out.threw
         THEN /\ evResponse' = [status |-> 500, success |-> FALSE,
                                error |-> out.message]
              /\ UNCHANGED <<goldStandard, metrics, resultsFile>>
         ELSE /\ goldStandard' = out.goldStandard
              /\ metrics' = out.metrics
              /\ resultsFile' =
                   Append(resultsFile,
                          [reportId |-> "report-1",
                           modelName |-> "GPT-4",
                           taskType |-> taskType,
                           results |-> [predictions |-> predictions,
                                        goldStandard |-> out.goldStandard,
                                        metrics |-> out.metrics]])
              /\ evResponse' = [status |-> 200, success |-> TRUE]
  /\ evPc' = "done"
  /\ UNCHANGED <<taskType, predictions>>

-----------------------------------------------------------------------------
(* Result Store: concurrent calls of localStorage.saveResult              *)
(*                                                                         *)
(* The handlers of different requests run interleaved on one event loop:   *)
(* a call of saveResult gives way at its two awaits, on readFile and on    *)
(* writeFile.  Here a call is cut at those awaits, where the pipeline     *)
(* model below takes each call of a run as one step.  A result carries    *)
(* the payload of its call, so that the results of two calls differ.       *)

MaxSaves == 3
MaxClock == 2

Calls == 1..MaxSaves

ReportIds == {1, 2}

storeVars == <<saves, now, fsFailed>>

IdleSave == [pc |-> "idle", results |-> <<>>, newResult |-> NullObject]

\* no call of saveResult is made
StoreIdle ==
  /\ saves = [c \in Calls |-> IdleSave]
  /\ now = 0
  /\ fsFailed = FALSE

\* lines 35-43: what readFile returns, [] when fs threw
readFile(file, ok) == IF ok THEN file ELSE <<>>

\* lines 45-51: the file after writeFile, as it was when fs threw
writeFile(file, data, ok) == IF ok THEN data ELSE file

\* lines 85-88, for the results read
getResultsByReportId(results, reportId) ==
  SelectSeq(results, LAMBDA result : result.reportId = reportId)

\* line 72: saveResult(result) is called and reads results.json
SaveResultRead(c, reportId, ok) ==
  /\ saves[c].pc = "idle"
  /\ \A b \in Calls : b < c => saves[b].pc # "idle"
  /\ saves' = [saves EXCEPT ![c] =
                 [pc |-> "read",
                  results |-> readFile(resultsFile, ok),
                  newResult |-> [reportId |-> reportId, taskType |-> "FinNI",
                                 results |-> c]]]
  /\ fsFailed' = (fsFailed \/ ~ok)
  /\ UNCHANGED <<resultsFile, now>>

\* lines 73-76: readFile has returned; the id is the time, the new result
\* is pushed on the array that was read, and writeFile is called
SaveResultPush(c) ==
  /\ saves[c].pc = "read"
  /\ saves' = [saves EXCEPT ![c] =
                 LET newResult == Spread(saves[c].newResult, [id |-> now])
                 IN [pc |-> "write",
                     results |-> Append(saves[c].results, newResult),
                     newResult |-> newResult]]
  /\ UNCHANGED <<resultsFile, now, fsFailed>>

\* lines 76-77: writeFile replaces the file by the array and saveResult
\* returns newResult
SaveResultWrite(c, ok) ==
  /\ saves[c].pc = "write"
  /\ resultsFile' = writeFile(resultsFile, saves[c].results, ok)
  /\ saves' = [saves EXCEPT ![c].pc = "returned"]
  /\ fsFailed' = (fsFailed \/ ~ok)
  /\ UNCHANGED now

\* a millisecond passes
Tick ==
  /\ now < MaxClock
  /\ now' = now + 1
  /\ UNCHANGED <<resultsFile, saves, fsFailed>>

-----------------------------------------------------------------------------
(* Accounts and sessions: authController, authMiddleware and authStorage   *)
(*                                                                         *)
(* Time is in seconds.  A handler changes the maps of authStorage in the   *)
(* statements that follow its checks without an await between them (the    *)
(* maps are in memory; the awaits are on the hashing and on the files the  *)
(* maps are saved to), so a request is one step.  A JSON web token is the  *)
(* payload it signs, userId and the second it was issued: jwt.sign gives   *)
(* the same text for the same payload.  bcrypt.hash is kept as a value     *)
(* that bcrypt.compare can tell from the hash of another password.         *)

MaxUsers == 2
MaxTicks == 2

OtpLifetime == 600
SessionLifetime == 604800

UserIds == 1..MaxUsers

Emails == {"ann@example.com"}

\* what emailService.generateOTP may return
Otps == {"111111", "222222"}

\* req.body.password, currentPassword, newPassword
PasswordInputs == {"secret1", "secret2"}

authVars == <<users, sessions, authTime, authTicks, userCount, issued,
              revoked, lastAuth>>

NoUser == [none |-> TRUE]

NoToken == [userId |-> 0, iat |-> 0, signed |-> FALSE]

\* no request has been made to the auth routes
AuthIdle ==
  /\ users = [id \in UserIds |-> NoUser]
  /\ sessions = {}
  /\ authTime = 0
  /\ authTicks = 0
  /\ userCount = 0
  /\ issued = {}
  /\ revoked = {}
  /\ lastAuth = [op |-> "none", user |-> 0, token |-> NoToken, status |-> 0,
                 password |-> Null, otp |-> Null, issued |-> NoToken]

\* bcrypt.hash(password, 10) and bcrypt.compare(password, hash)
hash(password) == "bcrypt:" \o password
compare(password, hashed) == hashed = hash(password)

\* authController lines 11-13, jwt.sign({ userId }, JWT_SECRET, { expiresIn: '7d' })
generateToken(userId, t) == [userId |-> userId, iat |-> t, signed |-> TRUE]

\* jwt.verify(token, JWT_SECRET) returns: the signature is ours and the
\* token has not reached its exp
jwtVerifies(token, t) == token.signed /\ t < token.iat + SessionLifetime

\* part_006 lines 92-94: the id of the first user with the email, 0 for null
getUserByEmail(us, email) ==
  LET hits == {id \in UserIds : us[id] # NoUser /\ us[id].email = email}
  IN IF hits = {} THEN 0 ELSE CHOOSE id \in hits : \A other \in hits : id <= other

\* part_006 lines 112-122: sessions.set(token, session)
createSession(ss, userId, token, expiresAt) ==
  {s \in ss : s.token # token}
    \cup {[token |-> token, userId |-> userId, expiresAt |-> expiresAt]}

\* part_006 lines 124-135: the session found, and the map afterwards (an
\* expired session is deleted and null is returned)
getSession(ss, token, t) ==
  IF \A s \in ss : s.token # token THEN [session |-> NullObject, sessions |-> ss]
  ELSE LET session == CHOOSE s \in ss : s.token = token
       IN IF session.expiresAt < t
            THEN [session |-> NullObject, sessions |-> ss \ {session}]
            ELSE [session |-> session, sessions |-> ss]

\* part_004 lines 6-68: 0 when next() is called, else the status sent
authMiddleware(token, t) ==
  IF ~jwtVerifies(token, t) THEN [status |-> 401, sessions |-> sessions]
  ELSE LET got == getSession(sessions, token, t)
       IN [status |-> IF got.session = NullObject THEN 401
                      ELSE IF users[token.userId] = NoUser THEN 401
                      ELSE IF ~users[token.userId].isVerified THEN 401
                      ELSE 0,
           sessions |-> got.sessions]

\* what a request leaves in lastAuth
Answered(op, user, status) ==
  [op |-> op, user |-> user, token |-> NoToken, status |-> status,
   password |-> Null, otp |-> Null, issued |-> NoToken]

\* new Date() > new Date(user.otpExpiry); new Date(null) is the epoch
otpExpired(user, t) ==
  t > (IF user.otpExpiry = NullObject THEN 0 ELSE user.otpExpiry.at)

\* authController lines 16-104: signup
Signup(email, otp) ==
  LET existing == getUserByEmail(users, email)
  IN /\ existing = 0 => userCount < MaxUsers
     /\ IF existing # 0 /\ users[existing].isVerified
          THEN /\ lastAuth' = Answered("signup", existing, 409)
               /\ UNCHANGED <<users, userCount>>
        ELSE IF existing # 0
          THEN /\ users' = [users EXCEPT ![existing].otp = otp,
                                         ![existing].otpExpiry =
                                            [at |-> authTime + OtpLifetime]]
               /\ lastAuth' = Answered("signup", existing, 200)
               /\ UNCHANGED userCount
        ELSE /\ users' = [users EXCEPT ![userCount + 1] =
                            [email |-> email, password |-> Null,
                             isVerified |-> FALSE, otp |-> otp,
                             otpExpiry |-> [at |-> authTime + OtpLifetime]]]
             /\ userCount' = userCount + 1
             /\ lastAuth' = Answered("signup", userCount + 1, 201)
     /\ UNCHANGED <<sessions, authTime, authTicks, issued, revoked>>

\* Faulty variant of VerifyOTP without the test of the expiry
VerifyOTPAnyTime(userId, otp) ==
  /\ lastAuth' = [Answered("verifyOTP", userId,
                           IF users[userId] = NoUser THEN 404
                           ELSE IF users[userId].isVerified THEN 400
                           ELSE IF users[userId].otp # otp THEN 400
                           ELSE 200) EXCEPT !.otp = otp]
  /\ users' = IF lastAuth'.status = 200
                THEN [users EXCEPT ![userId].isVerified = TRUE,
                                   ![userId].otp = Null,
                                   ![userId].otpExpiry = NullObject]
                ELSE users
  /\ UNCHANGED <<sessions, authTime, authTicks, userCount, issued, revoked>>

\* authController lines 106-173: verifyOTP
VerifyOTP(userId, otp) ==
  /\ lastAuth' = [Answered("verifyOTP", userId,
                           IF users[userId] = NoUser THEN 404
                           ELSE IF users[userId].isVerified THEN 400
                           ELSE IF otpExpired(users[userId], authTime) THEN 400
                           ELSE IF users[userId].otp # otp THEN 400
                           ELSE 200) EXCEPT !.otp = otp]
  /\ users' = IF lastAuth'.status = 200
                THEN [users EXCEPT ![userId].isVerified = TRUE,
                                   ![userId].otp = Null,
                                   ![userId].otpExpiry = NullObject]
                ELSE users
  /\ UNCHANGED <<sessions, authTime, authTicks, userCount, issued, revoked>>

\* authController lines 176-221: resendOTP
ResendOTP(userId, otp) ==
  /\ lastAuth' = Answered("resendOTP", userId,
                          IF users[userId] = NoUser THEN 404
                          ELSE IF users[userId].isVerified THEN 400
                          ELSE 200)
  /\ users' = IF lastAuth'.status = 200
                THEN [users EXCEPT ![userId].otp = otp,
                                   ![userId].otpExpiry =
                                      [at |-> authTime + OtpLifetime]]
                ELSE users
  /\ UNCHANGED <<sessions, authTime, authTicks, userCount, issued, revoked>>

\* the session a handler opens: lines 262-266 and 333-337
OpenSession(userId) ==
  /\ sessions' = createSession(sessions, userId, generateToken(userId, authTime),
                               authTime + SessionLifetime)
  /\ issued' = issued \cup {generateToken(userId, authTime)}

\* authController lines 224-284: setPassword
SetPassword(userId, password) ==
  LET status == IF Len(password) < 6 THEN 400
                ELSE IF users[userId] = NoUser THEN 404
                ELSE IF ~users[userId].isVerified THEN 400
                ELSE 200
  IN /\ lastAuth' = [Answered("setPassword", userId, status) EXCEPT
                       !.password = password,
                       !.issued = IF status = 200
                                    THEN generateToken(userId, authTime)
                                    ELSE NoToken]
     /\ IF status = 200
          THEN /\ users' = [users EXCEPT ![userId].password = hash(password)]
               /\ OpenSession(userId)
          ELSE UNCHANGED <<users, sessions, issued>>
     /\ UNCHANGED <<authTime, authTicks, userCount, revoked>>

\* authController lines 287-355: login
Login(email, password) ==
  LET userId == getUserByEmail(users, email)
      status == IF userId = 0 THEN 401
                ELSE IF ~users[userId].isVerified THEN 401
                ELSE IF users[userId].password = Null THEN 401
                ELSE IF ~compare(password, users[userId].password) THEN 401
                ELSE 200
  IN /\ lastAuth' = [Answered("login", userId, status) EXCEPT
                       !.password = password,
                       !.issued = IF status = 200
                                    THEN generateToken(userId, authTime)
                                    ELSE NoToken]
     /\ IF status = 200 THEN OpenSession(userId)
                        ELSE UNCHANGED <<sessions, issued>>
     /\ UNCHANGED <<users, authTime, authTicks, userCount, revoked>>

\* a request to a protected route that authMiddleware answers itself
Refused(op, token) ==
  /\ authMiddleware(token, authTime).status # 0
  /\ sessions' = authMiddleware(token, authTime).sessions
  /\ lastAuth' = [Answered(op, 0, authMiddleware(token, authTime).status)
                    EXCEPT !.token = token]
  /\ UNCHANGED <<users, authTime, authTicks, userCount, issued, revoked>>

\* authController lines 381-397, behind authMiddleware: getMe
GetMe(token) ==
  \/ Refused("getMe", token)
  \/ /\ authMiddleware(token, authTime).status = 0
     /\ lastAuth' = [Answered("getMe", token.userId, 200) EXCEPT !.token = token]
     /\ UNCHANGED <<users, sessions, authTime, authTicks, userCount, issued,
                    revoked>>

\* authController lines 358-378, behind authMiddleware: logout
Logout(token) ==
  \/ Refused("logout", token)
  \/ /\ authMiddleware(token, authTime).status = 0
     /\ sessions' = {s \in sessions : s.token # token}
     /\ revoked' = revoked \cup {token}
     /\ lastAuth' = [Answered("logout", token.userId, 200) EXCEPT !.token = token]
     /\ UNCHANGED <<users, authTime, authTicks, userCount, issued>>

\* authController lines 400-455, behind authMiddleware: changePassword
ChangePassword(token, currentPassword, newPassword) ==
  \/ Refused("changePassword", token)
  \/ /\ authMiddleware(token, authTime).status = 0
     /\ LET user == users[token.userId]
            status == IF Len(newPassword) < 6 THEN 400
                      ELSE IF user.password = Null THEN 500
                      ELSE IF ~compare(currentPassword, user.password) THEN 401
                      ELSE IF compare(newPassword, user.password) THEN 400
                      ELSE 200
        IN /\ lastAuth' = [Answered("changePassword", token.userId, status)
                             EXCEPT !.token = token, !.password = currentPassword]
           /\ users' = IF status = 200
                         THEN [users EXCEPT ![token.userId].password = hash(newPassword)]
                         ELSE users
     /\ UNCHANGED <<sessions, authTime, authTicks, userCount, issued, revoked>>

\* authController lines 458-498, behind authMiddleware: deleteAccount
DeleteAccount(token, password) ==
  \/ Refused("deleteAccount", token)
  \/ /\ authMiddleware(token, authTime).status = 0
     /\ LET user == users[token.userId]
            status == IF user.password = Null THEN 500
                      ELSE IF ~compare(password, user.password) THEN 401
                      ELSE 200
        IN /\ lastAuth' = [Answered("deleteAccount", token.userId, status)
                             EXCEPT !.token = token, !.password = password]
           /\ IF status = 200
                THEN /\ sessions' = {s \in sessions : s.userId # token.userId}
                     /\ users' = [users EXCEPT ![token.userId] = NoUser]
                     /\ revoked' = revoked \cup {k \in issued : k.userId = token.userId}
                ELSE UNCHANGED <<users, sessions, revoked>>
     /\ UNCHANGED <<authTime, authTicks, userCount, issued>>

\* time passes: the life of an OTP, or the life of a session
AuthTick(d) ==
  /\ authTicks < MaxTicks
  /\ authTicks' = authTicks + 1
  /\ authTime' = authTime + d
  /\ UNCHANGED <<users, sessions, userCount, issued, revoked, lastAuth>>

-----------------------------------------------------------------------------
(* Pipeline Orchestrator: uploadFile, processFinNI and the reports store    *)
(*                                                                         *)
(* A run is one request to processFinNI.  The handler is cut at its        *)
(* awaits on the oracle, on the result store and on the processFinCL       *)
(* request; identifyNumericEntities is reduced to its retry loop (the       *)
(* content of its answers is the subject of the extraction engine above),  *)
(* and the processFinCL request to its outcome.  Every method of            *)
(* localStorage is one step.  A report's id, a time stamp in the code, is  *)
(* its position in reports.json.                                           *)
(*                                                                         *)
(* The catch block of processFinNI (part_008 lines 378-391), which stores  *)
(* the status 'failed', has no action: getReport, extractText,             *)
(* identifyNumericEntities, saveResult and updateReportStatus catch their  *)
(* own errors, and the processFinCL request is wrapped in a try of its own *)
(* (lines 358-368), so no statement of the try block of lines 302-377      *)
(* throws.                                                                 *)

MaxRuns == 2

Runs == 1..MaxRuns

pipeVars == <<reports, runs>>

IdleRun ==
  [pc |-> "idle", reportId |-> 0, caller |-> "none", attempt |-> 0,
   source |-> "none", link |-> "none", overwrote |-> "none", response |-> 0]

\* no upload and no processFinNI request is made
PipelineIdle ==
  /\ reports = <<>>
  /\ runs = [r \in Runs |-> IdleRun]

\* the slot of the next request
NextRun(r) ==
  /\ runs[r].pc = "idle"
  /\ \A q \in Runs : q < r => runs[q].pc # "idle"

\* part_007 lines 62-65: the index of the report, 0 when there is none
getReport(rs, id) ==
  LET hits == {i \in 1..Len(rs) : rs[i].id = id}
  IN IF hits = {} THEN 0 ELSE CHOOSE i \in hits : \A j \in hits : i <= j

\* part_007 lines 90-100
updateReportStatus(rs, id, status) ==
  IF getReport(rs, id) = 0 THEN rs
  ELSE [rs EXCEPT ![getReport(rs, id)].status = status]

\* Faulty variant of statusAfterRun: a run whose processFinCL request
\* failed stores 'failed'
statusByLinking(run) == IF run.link = "threw" THEN "failed" ELSE "completed"

\* part_008 line 371: the status a run stores when it reaches its end
statusAfterRun(run) == "completed"

\* uploadController lines 66-85: the report is stored as 'uploaded' and a
\* request to processFinNI is sent for it
UploadFile(r) ==
  /\ NextRun(r)
  /\ \A q \in Runs : runs[q].caller # "upload"
  /\ reports' = Append(reports, [id |-> Len(reports) + 1, status |-> "uploaded",
                                 fileName |-> "report.pdf"])
  /\ runs' = [runs EXCEPT ![r] = [IdleRun EXCEPT !.pc = "posted",
                                                 !.reportId = Len(reports) + 1,
                                                 !.caller = "upload"]]
  /\ UNCHANGED <<env, resultsFile>>

\* a client sends POST /api/finni with a reportId
PostFinNI(r, id) ==
  /\ NextRun(r)
  /\ runs' = [runs EXCEPT ![r] = [IdleRun EXCEPT !.pc = "posted",
                                                 !.reportId = id,
                                                 !.caller = "client"]]
  /\ UNCHANGED <<env, resultsFile, reports>>

\* Faulty variant of ProcessFinNIBegin that does not test what getReport
\* returned
ProcessFinNIBeginUnchecked(r) ==
  /\ runs[r].pc = "posted"
  /\ runs' = [runs EXCEPT ![r] =
       IF useLocal(env)
         THEN [@ EXCEPT !.pc = "save", !.source = "local"]
       ELSE [@ EXCEPT !.pc = "oracle"]]
  /\ UNCHANGED <<env, resultsFile, reports>>

\* part_008 lines 301-324 and 213-260: processFinNI up to the first await
\* of identifyNumericEntities on the oracle, or up to its return when the
\* local extractor is used
ProcessFinNIBegin(r) ==
  /\ runs[r].pc = "posted"
  /\ runs' = [runs EXCEPT ![r] =
       IF getReport(reports, runs[r].reportId) = 0
         THEN [@ EXCEPT !.pc = "responded", !.response = 404]
       ELSE IF useLocal(env)
         THEN [@ EXCEPT !.pc = "save", !.source = "local"]
       ELSE [@ EXCEPT !.pc = "oracle"]]
  /\ UNCHANGED <<env, resultsFile, reports>>

\* part_008 lines 84-98 and 260-298: the oracle answers an attempt of
\* callGeminiAPI.  A good answer ends identifyNumericEntities; a bad one is
\* followed by the next attempt or, after the last, by the rule-based
\* extractor in the catch block.
OracleAnswers(r, good) ==
  /\ runs[r].pc = "oracle"
  /\ runs' = [runs EXCEPT ![r] =
       IF good THEN [@ EXCEPT !.pc = "save", !.source = "oracle"]
       ELSE IF @.attempt < Retries THEN [@ EXCEPT !.attempt = @ + 1]
       ELSE [@ EXCEPT !.pc = "save", !.source = "fallback"]]
  /\ UNCHANGED <<env, resultsFile, reports>>

\* Faulty variant of SaveExtraction that sends the processFinCL request
\* without having saved the FinNI result
TriggerBeforeSave(r) ==
  /\ runs[r].pc = "save"
  /\ runs' = [runs EXCEPT ![r].pc = "link"]
  /\ UNCHANGED <<env, resultsFile, reports>>

\* part_008 lines 327-363: the FinNI result is saved and the processFinCL
\* request is sent
SaveExtraction(r) ==
  /\ runs[r].pc = "save"
  /\ resultsFile' = Append(resultsFile,
                           [reportId |-> runs[r].reportId, taskType |-> "FinNI",
                            source |-> runs[r].source])
  /\ runs' = [runs EXCEPT ![r].pc = "link"]
  /\ UNCHANGED <<env, reports>>

\* Faulty variant of LinkAnswers in which processFinCL, having saved its
\* result, stores the status 'completed' itself
LinkAnswersStoresStatus(r, good) ==
  /\ runs[r].pc = "link"
  /\ resultsFile' =
       IF good THEN Append(resultsFile,
                           [reportId |-> runs[r].reportId, taskType |-> "FinCL",
                            source |-> runs[r].source])
       ELSE resultsFile
  /\ reports' = IF good THEN updateReportStatus(reports, runs[r].reportId, "completed")
                ELSE reports
  /\ runs' = [runs EXCEPT ![r].pc = "status",
                          ![r].link = IF good THEN "answered" ELSE "threw"]
  /\ UNCHANGED env

\* part_008 lines 358-368: the processFinCL request is answered.  With
\* status 200 processFinCL has saved its FinCL result; with 500, or with
\* no connection, axios.post throws and the error is logged.
LinkAnswers(r, good) ==
  /\ runs[r].pc = "link"
  /\ resultsFile' =
       IF good THEN Append(resultsFile,
                           [reportId |-> runs[r].reportId, taskType |-> "FinCL",
                            source |-> runs[r].source])
       ELSE resultsFile
  /\ runs' = [runs EXCEPT ![r].pc = "status",
                          ![r].link = IF good THEN "answered" ELSE "threw"]
  /\ UNCHANGED <<env, reports>>

\* part_008 lines 370-377: the status is stored and the request answered
CompleteRun(r) ==
  /\ runs[r].pc = "status"
  /\ reports' = updateReportStatus(reports, runs[r].reportId,
                                   statusAfterRun(runs[r]))
  /\ runs' = [runs EXCEPT
       ![r].pc = "responded",
       ![r].response = 200,
       ![r].overwrote = reports[getReport(reports, runs[r].reportId)].status]
  /\ UNCHANGED <<env, resultsFile>>

\* uploadController lines 83-107: uploadFile goes on when its processFinNI
\* request is answered.  After a 200 it calls saveReport on the saved
\* report with the status 'processing', which appends a report with a new
\* id (part_007 lines 53-60); a 404 makes axios.post throw.
UploadResume(r) ==
  /\ runs[r].pc = "responded"
  /\ runs[r].caller = "upload"
  /\ reports' =
       IF runs[r].response = 200
         THEN Append(reports, [id |-> Len(reports) + 1, status |-> "processing",
                               fileName |-> "report.pdf"])
         ELSE reports
  /\ runs' = [runs EXCEPT ![r].pc = "closed"]
  /\ UNCHANGED <<env, resultsFile>>

\* uploadController lines 87-107: data of the response of uploadFile, the
\* object saveReport returned at line 79 with the status set at line 87
uploadResponseData(run) ==
  [id |-> run.reportId,
   status |-> IF run.response = 200 THEN "processing" ELSE "uploaded"]

\* the steps the server takes by itself once they are due
HandlerStep ==
  /\ \E r \in Runs : \/ ProcessFinNIBegin(r)
                     \/ SaveExtraction(r)
                     \/ CompleteRun(r)
                     \/ UploadResume(r)
  /\ UNCHANGED <<text, niPc, attempt, oracleCalls, failures, lastResp,
                 sentText, delays, niResult, niSource, entities, fcPc,
                 batches, outcomes, linkAttempt, linkCalls, lastTry,
                 linkDelays, allMappings, linkPath, linkedEntities,
                 fcResponse, evalVars, storeVars, authVars>>

-----------------------------------------------------------------------------
(* Specifications                                                          *)

\* the variables of processFinCL other than the result store
linkState == <<entities, fcPc, batches, outcomes, linkAttempt, linkCalls,
               lastTry, linkDelays, allMappings, linkPath, linkedEntities,
               fcResponse>>

vars == <<env, niVars, linkVars, evalVars, pipeVars, storeVars, authVars>>

\* no processFinCL request is made
LinkIdle ==
  /\ entities = <<>>
  /\ fcPc = "off"
  /\ batches = <<>>
  /\ outcomes = <<>>
  /\ linkAttempt = 0
  /\ linkCalls = 0
  /\ lastTry = [none |-> TRUE]
  /\ linkDelays = <<>>
  /\ allMappings = <<>>
  /\ linkPath = "none"
  /\ linkedEntities = <<>>
  /\ resultsFile = <<>>
  /\ fcResponse = NoResponseYet

\* identifyNumericEntities is not called
ExtractIdle ==
  /\ text = ""
  /\ niPc = "off"
  /\ attempt = 0
  /\ oracleCalls = 0
  /\ failures = 0
  /\ lastResp = NoResponse
  /\ sentText = ""
  /\ delays = <<>>
  /\ niResult = NullObject
  /\ niSource = "none"

\* one call of identifyNumericEntities(text)
NextExtract ==
  \/ ExtractLocal /\ UNCHANGED <<linkVars, evalVars, pipeVars, storeVars, authVars>>
  \/ ExtractBegin /\ UNCHANGED <<linkVars, evalVars, pipeVars, storeVars, authVars>>
  \/ (\E resp \in ExtractionResponses : OracleAttempt(resp)) /\ UNCHANGED <<linkVars, evalVars, pipeVars, storeVars, authVars>>
  \/ BackoffElapsed /\ UNCHANGED <<linkVars, evalVars, pipeVars, storeVars, authVars>>

InitExtraction ==
  InitExtract /\ LinkIdle /\ EvalIdle /\ PipelineIdle /\ StoreIdle /\ AuthIdle

SpecExtract == InitExtraction /\ [][NextExtract]_vars

\* one processFinCL request
NextLink ==
  \/ FinCLStart /\ UNCHANGED <<niVars, evalVars, pipeVars, storeVars, authVars>>
  \/ BatchAttempt /\ UNCHANGED <<niVars, evalVars, pipeVars, storeVars, authVars>>
  \/ LinkBackoffElapsed /\ UNCHANGED <<niVars, evalVars, pipeVars, storeVars, authVars>>
  \/ FinCLRespond /\ UNCHANGED <<niVars, evalVars, pipeVars, storeVars, authVars>>

InitLinking ==
  /\ env \in {e \in Environments : e.USE_LOCAL_EXTRACTION = Undefined}
  /\ ExtractIdle
  /\ InitLink
  /\ EvalIdle
  /\ PipelineIdle
  /\ StoreIdle
  /\ AuthIdle

SpecLink == InitLinking /\ [][NextLink]_vars

\* one evaluateResults request
NextEval ==
  \/ EvaluateResults
       /\ UNCHANGED <<env, niVars, linkState, pipeVars, storeVars, authVars>>

InitEvaluation ==
  /\ env \in {e \in Environments : e.USE_LOCAL_EXTRACTION = Undefined}
  /\ ExtractIdle
  /\ entities = <<>>
  /\ fcPc = "off"
  /\ batches = <<>>
  /\ outcomes = <<>>
  /\ linkAttempt = 0
  /\ linkCalls = 0
  /\ lastTry = [none |-> TRUE]
  /\ linkDelays = <<>>
  /\ allMappings = <<>>
  /\ linkPath = "none"
  /\ linkedEntities = <<>>
  /\ fcResponse = NoResponseYet
  /\ InitEval
  /\ PipelineIdle
  /\ StoreIdle
  /\ AuthIdle

SpecEval == InitEvaluation /\ [][NextEval]_vars

\* uploads and processFinNI requests
NextPipeline ==
  \/ (\E r \in Runs : UploadFile(r))
       /\ UNCHANGED <<niVars, linkState, evalVars, storeVars, authVars>>
  \/ (\E r \in Runs : \E id \in 0..Len(reports) : PostFinNI(r, id))
       /\ UNCHANGED <<niVars, linkState, evalVars, storeVars, authVars>>
  \/ (\E r \in Runs : ProcessFinNIBegin(r))
       /\ UNCHANGED <<niVars, linkState, evalVars, storeVars, authVars>>
  \/ (\E r \in Runs : \E good \in BOOLEAN : OracleAnswers(r, good))
       /\ UNCHANGED <<niVars, linkState, evalVars, storeVars, authVars>>
  \/ (\E r \in Runs : SaveExtraction(r))
       /\ UNCHANGED <<niVars, linkState, evalVars, storeVars, authVars>>
  \/ (\E r \in Runs : \E good \in BOOLEAN : LinkAnswers(r, good))
       /\ UNCHANGED <<niVars, linkState, evalVars, storeVars, authVars>>
  \/ (\E r \in Runs : CompleteRun(r))
       /\ UNCHANGED <<niVars, linkState, evalVars, storeVars, authVars>>
  \/ (\E r \in Runs : UploadResume(r))
       /\ UNCHANGED <<niVars, linkState, evalVars, storeVars, authVars>>

InitPipeline ==
  /\ env \in Environments
  /\ ExtractIdle
  /\ LinkIdle
  /\ EvalIdle
  /\ PipelineIdle
  /\ StoreIdle
  /\ AuthIdle

SpecPipeline == InitPipeline /\ [][NextPipeline]_vars

\* The event loop runs a handler's next step once the call it awaits has
\* returned; the answers of the oracle and of the processFinCL request
\* come from outside, and neither call is given a time limit (part_008
\* line 44, authController.js line 639, part_008 line 360).
SpecPipelineLive == SpecPipeline /\ WF_vars(HandlerStep)

\* calls of saveResult, interleaved at their awaits
NextStorage ==
  \/ (\E c \in Calls : \E reportId \in ReportIds : \E ok \in BOOLEAN :
        SaveResultRead(c, reportId, ok))
       /\ UNCHANGED <<env, niVars, linkState, evalVars, pipeVars, authVars>>
  \/ (\E c \in Calls : SaveResultPush(c))
       /\ UNCHANGED <<env, niVars, linkState, evalVars, pipeVars, authVars>>
  \/ (\E c \in Calls : \E ok \in BOOLEAN : SaveResultWrite(c, ok))
       /\ UNCHANGED <<env, niVars, linkState, evalVars, pipeVars, authVars>>
  \/ Tick
       /\ UNCHANGED <<env, niVars, linkState, evalVars, pipeVars, authVars>>

InitStorage ==
  /\ env \in {e \in Environments :
               e.GEMINI_API_KEY /\ e.USE_LOCAL_EXTRACTION = Undefined}
  /\ ExtractIdle
  /\ LinkIdle
  /\ EvalIdle
  /\ PipelineIdle
  /\ StoreIdle
  /\ AuthIdle

SpecStorage == InitStorage /\ [][NextStorage]_vars

\* the variables of the other components
restVars == <<env, niVars, linkVars, evalVars, pipeVars, storeVars>>

\* requests to the auth routes, one after another
NextAuth ==
  \/ (\E email \in Emails : \E otp \in Otps : Signup(email, otp))
       /\ UNCHANGED restVars
  \/ (\E id \in UserIds : \E otp \in Otps : VerifyOTP(id, otp))
       /\ UNCHANGED restVars
  \/ (\E id \in UserIds : \E otp \in Otps : ResendOTP(id, otp))
       /\ UNCHANGED restVars
  \/ (\E id \in UserIds : \E password \in PasswordInputs : SetPassword(id, password))
       /\ UNCHANGED restVars
  \/ (\E email \in Emails : \E password \in PasswordInputs : Login(email, password))
       /\ UNCHANGED restVars
  \/ (\E token \in issued \cup {NoToken} : GetMe(token))
       /\ UNCHANGED restVars
  \/ (\E token \in issued \cup {NoToken} : Logout(token))
       /\ UNCHANGED restVars
  \/ (\E token \in issued \cup {NoToken} : \E cur, new \in PasswordInputs :
        ChangePassword(token, cur, new))
       /\ UNCHANGED restVars
  \/ (\E token \in issued \cup {NoToken} : \E password \in PasswordInputs :
        DeleteAccount(token, password))
       /\ UNCHANGED restVars
  \/ (\E d \in {OtpLifetime, SessionLifetime} : AuthTick(d))
       /\ UNCHANGED restVars

InitAuth ==
  /\ env \in {e \in Environments :
               e.GEMINI_API_KEY /\ e.USE_LOCAL_EXTRACTION = Undefined}
  /\ ExtractIdle
  /\ LinkIdle
  /\ EvalIdle
  /\ PipelineIdle
  /\ StoreIdle
  /\ AuthIdle

SpecAuth == InitAuth /\ [][NextAuth]_vars

-----------------------------------------------------------------------------
(* Properties of identifyNumericEntities, under SpecExtract                *)

\* an oracle response that is malformed: its text does not end in '}' or
\* ']', is not JSON, or is JSON without an entities array
Malformed(resp) ==
  /\ ~resp.transport
  /\ \/ ~endsWithClose(stripFences(resp))
     \/ ~jsonParses(stripFences(resp))
     \/ ~hasEntitiesArray(resp.body.doc)

\* C1: identifyNumericEntities never throws, whatever the text and whatever
\* the oracle answers (a transport error on every attempt, text that is not
\* JSON, cut text, JSON without an entities array, a valid response): the
\* call is never stuck before its return, and the value it returns is an
\* object whose entities field is an array, possibly empty.
C1_NeverFailsCaller ==
  /\ niPc \in {"start", "call", "wait", "returned"}
  /\ niPc # "returned" => ENABLED NextExtract
  /\ niPc = "returned" =>
       /\ "entities" \in DOMAIN niResult
       /\ DOMAIN niResult.entities = 1..Len(niResult.entities)

\* every attempt met a transport error, and the call returned
C1_ReturnsAfterTransportErrors ==
  /\ niPc = "returned"
  /\ niSource = "fallback"
  /\ oracleCalls = Retries + 1
  /\ failures = Retries + 1
  /\ lastResp = [transport |-> TRUE]

\* C2: a malformed oracle response is treated like a transport error: the
\* attempt counts as failed and, while attempts remain, is retried after a
\* wait; once the Retries + 1 attempts have failed, identifyNumericEntities
\* returns exactly the Rule-Based Extractor's entities of the whole text,
\* however much of the text the prompt chunk held.
C2_MalformedRetriedThenRuleBased ==
  (lastResp # NoResponse /\ (lastResp.transport \/ Malformed(lastResp))) =>
    /\ failures = oracleCalls
    /\ \/ niPc = "wait" /\ attempt < Retries /\ failures = attempt + 1
       \/ niPc = "call" /\ attempt <= Retries /\ failures = attempt
       \/ /\ niPc = "returned"
          /\ oracleCalls = Retries + 1
          /\ niSource = "fallback"
          /\ niResult = [entities |-> RuleBasedOf(text)]

\* three responses without an entities array to a text longer than the
\* prompt chunk: the result holds the numbers before and behind the cut
C2_RuleBasedOverLongText ==
  /\ niPc = "returned"
  /\ text = LongText
  /\ sentText # text
  /\ failures = Retries + 1
  /\ lastResp = [transport |-> FALSE, fence |-> "none",
                 body |-> [form |-> "json",
                           doc |-> [mappings |-> [array |-> <<>>]]]]
  /\ Len(niResult.entities) = 4

\* C3: when USE_LOCAL_EXTRACTION is 'true' or GEMINI_API_KEY is not set,
\* identifyNumericEntities calls the oracle zero times and returns exactly
\* the Rule-Based Extractor's entities of the text.
C3_LocalExtractionOnly ==
  (env.USE_LOCAL_EXTRACTION = "true" \/ ~env.GEMINI_API_KEY) =>
    /\ oracleCalls = 0
    /\ niPc \in {"start", "returned"}
    /\ niPc = "returned" => niResult = [entities |-> RuleBasedOf(text)]

\* the flag is 'true', a key is set, and the call returned entities
C3_FlagSetWithKey ==
  /\ env.USE_LOCAL_EXTRACTION = "true"
  /\ env.GEMINI_API_KEY
  /\ niPc = "returned"
  /\ niResult.entities # <<>>

-----------------------------------------------------------------------------
(* Properties of linkConcepts and processFinCL, under SpecLink             *)

\* linkConcepts has returned or thrown: linkedEntities is set
Linked == fcPc \in {"linked", "done"}

\* predictions of the FinCL result processFinCL saved
Predictions == resultsFile[Len(resultsFile)].results.predictions

CarriesFields(out, in) ==
  \A f \in DOMAIN in : f \in DOMAIN out /\ out[f] = in[f]

\* C4: linking returns exactly one output entity per input entity, in input
\* order (output i carries the fields of input i), whether the batches were
\* accepted, exhausted their retries, or linkConcepts threw and processFinCL
\* used its own rules; the saved predictions keep that length and order.
C4_OneOutputPerInputInOrder ==
  Linked =>
    /\ Len(linkedEntities) = Len(entities)
    /\ \A k \in 1..Len(entities) : CarriesFields(linkedEntities[k], entities[k])
    /\ fcPc = "done" =>
         /\ Len(Predictions) = Len(entities)
         /\ \A k \in 1..Len(entities) : Predictions[k].value = entities[k].value

\* two batches, one accepted and one that exhausted its retries
C4_AcceptedAndExhaustedBatch ==
  /\ fcPc = "done"
  /\ linkPath = "oracle"
  /\ Len(entities) = MaxEntities
  /\ outcomes = <<"accepted", "exhausted">>

\* the global indices of the members of batch b: batch-local id i becomes
\* i + batchStart, as line 661 re-indexes an entityId
ReindexedIds(b) ==
  {adjustedMappings(<<[entityId |-> i]>>, b.batchStart)[1].entityId : i \in b.ids}

\* C5: the batches linkConcepts builds are contiguous ranges of at most
\* BATCH_SIZE entities that start at 0 and follow one another, the prompt of
\* a batch numbers its members 0, 1, ..; when the loop has ended the ranges
\* end at N, and re-indexing id i of the batch at batchStart to
\* batchStart + i gives every index of 0..N-1 exactly once.
C5_BatchesPartitionIndices ==
  linkPath # "secondary" =>
    /\ \A i \in 1..Len(batches) :
         /\ batches[i].batchStart = IF i = 1 THEN 0 ELSE batches[i - 1].batchEnd
         /\ BatchLen(batches[i]) \in 1..BATCH_SIZE
         /\ batches[i].ids = 0..(BatchLen(batches[i]) - 1)
         /\ ReindexedIds(batches[i]) =
              batches[i].batchStart..(batches[i].batchEnd - 1)
         /\ batches[i].batchEnd <= Len(entities)
    /\ Linked =>
         /\ entities = <<>> => batches = <<>>
         /\ entities # <<>> => batches[Len(batches)].batchEnd = Len(entities)
         /\ \A index \in 0..(Len(entities) - 1) :
              Cardinality({i \in 1..Len(batches) :
                             index \in ReindexedIds(batches[i])}) = 1

\* a request of two batches, the second one shorter, after the loop
C5_TwoBatches ==
  /\ fcPc = "linked"
  /\ linkPath = "oracle"
  /\ Len(entities) = MaxEntities
  /\ Len(batches) = 2
  /\ BatchLen(batches[2]) < BATCH_SIZE

\* the response text parses as JSON once the fences are stripped
RespParses(resp) == ~resp.transport /\ jsonParses(stripFences(resp))

\* the parsed response has a mappings array
HasMappingsArray(resp) ==
  /\ RespParses(resp)
  /\ "mappings" \in DOMAIN resp.body.doc
  /\ "array" \in DOMAIN resp.body.doc.mappings

\* the mapping count is at least 70% of the batch size
EnoughMappings(resp, b) ==
  /\ HasMappingsArray(resp)
  /\ 10 * Len(resp.body.doc.mappings.array) >= 7 * BatchLen(b)

NoNullMapping(resp) ==
  \A j \in 1..Len(resp.body.doc.mappings.array) :
    resp.body.doc.mappings.array[j] # NullObject

Tried == lastTry # [none |-> TRUE]

\* C6 as stated: a batch response is accepted iff it parses and its mapping
\* count is at least 70% of the batch size.
C6_AsStated ==
  Tried =>
    (lastTry.accepted <=>
       RespParses(lastTry.resp) /\ EnoughMappings(lastTry.resp, lastTry.batch))

\* C6: a batch response is accepted iff it parses, has a mappings array of
\* at least 70% of the batch size, and no element of the array is null; a
\* response that is not accepted is a failed attempt, and it is retried
\* after a wait while the batch has attempts left.
C6_AcceptedIffEnoughNonNullMappings ==
  Tried =>
    /\ lastTry.accepted <=>
         /\ RespParses(lastTry.resp)
         /\ EnoughMappings(lastTry.resp, lastTry.batch)
         /\ NoNullMapping(lastTry.resp)
    /\ (~lastTry.accepted /\ lastTry.attempt < MAX_RETRIES) =>
         /\ batches[Len(batches)] = lastTry.batch
         /\ \/ fcPc = "backoff" /\ linkAttempt = lastTry.attempt
            \/ fcPc = "attempt" /\ linkAttempt = lastTry.attempt + 1

\* a batch of 40 answered with 27 mappings, one less than 70%: the attempt
\* failed and the batch waits for its retry
C6_BelowThresholdIsRetried ==
  /\ Tried
  /\ BatchLen(lastTry.batch) = BATCH_SIZE
  /\ HasMappingsArray(lastTry.resp)
  /\ Len(lastTry.resp.body.doc.mappings.array) = 27
  /\ ~lastTry.accepted
  /\ fcPc = "backoff"

\* entity k (from 1) has an oracle-assigned tag: linkConcepts returned and
\* the first accumulated mapping for index k - 1 carries an xbrlTag
HasOracleTag(k) ==
  /\ linkPath = "oracle"
  /\ findMapping(allMappings, k - 1) # NullObject
  /\ "xbrlTag" \in DOMAIN findMapping(allMappings, k - 1)
  /\ findMapping(allMappings, k - 1).xbrlTag # NullObject

\* indices (from 1) of the entities of the batches that exhausted their retries
ExhaustedMembers ==
  UNION {(batches[i].batchStart + 1)..batches[i].batchEnd :
           i \in {j \in 1..Len(outcomes) : outcomes[j] = "exhausted"}}

\* C7 as stated: after a batch has exhausted its retries, every entity of
\* the batch has a non-null xbrlTag produced by the keyword rules in the
\* output of linkConcepts.
C7_AsStated ==
  (Linked /\ linkPath = "oracle") =>
    \A k \in ExhaustedMembers :
      /\ linkedEntities[k].xbrlTag # NullObject
      /\ linkedEntities[k].mappingExplanation = "Rule-based mapping (fallback)"

\* C7: after a batch has exhausted its retries, every entity of the batch
\* that no accumulated mapping tags goes through the keyword rules of
\* linkConcepts: it gets the tag of the first rule its lower-cased
\* description (or value) satisfies, with confidence 0.6 and the explanation
\* 'Rule-based mapping (fallback)', and when no rule is satisfied it keeps
\* xbrlTag null with 'No suitable US-GAAP mapping found'.  An entity of the
\* batch that a mapping of another batch's response addresses gets that
\* mapping's tag.
C7_ExhaustedBatchGoesThroughRules ==
  (Linked /\ linkPath = "oracle") =>
    \A k \in ExhaustedMembers :
      IF HasOracleTag(k)
        THEN linkedEntities[k].xbrlTag = findMapping(allMappings, k - 1).xbrlTag
        ELSE /\ linkedEntities[k].xbrlTag =
                  EnhancedTagOf(descriptionOrValue(entities[k]))
             /\ linkedEntities[k].xbrlTag # NullObject =>
                  /\ linkedEntities[k].xbrlTag.confidence = 60
                  /\ linkedEntities[k].mappingExplanation =
                       "Rule-based mapping (fallback)"
             /\ linkedEntities[k].xbrlTag = NullObject =>
                  linkedEntities[k].mappingExplanation =
                    "No suitable US-GAAP mapping found"

\* an exhausted batch with an entity the rules tag and one they leave null
C7_ExhaustedWithTaggedAndUntagged ==
  /\ fcPc = "linked"
  /\ linkPath = "oracle"
  /\ \E k \in ExhaustedMembers :
       /\ ~HasOracleTag(k)
       /\ linkedEntities[k].xbrlTag = Tag("us-gaap:NetIncomeLoss", 60)
  /\ \E k \in ExhaustedMembers :
       /\ ~HasOracleTag(k)
       /\ linkedEntities[k].xbrlTag = NullObject

\* mappingExplanation is there: neither missing, undefined nor null
ExplanationPresent(entity) ==
  /\ "mappingExplanation" \in DOMAIN entity
  /\ entity.mappingExplanation \notin {Null, Undefined}

\* C8 as stated: in the final linking output (of linkConcepts or of the
\* catch block of processFinCL) and in the saved FinCL predictions, every
\* entity without an oracle-assigned tag has a non-null mappingExplanation.
C8_AsStated ==
  Linked =>
    \A k \in 1..Len(linkedEntities) :
      ~HasOracleTag(k) =>
        /\ ExplanationPresent(linkedEntities[k])
        /\ fcPc = "done" => ExplanationPresent(Predictions[k])

\* C9 as stated: every linked entity whose xbrlTag is non-null has a
\* mappingExplanation that is present, whether the tag is from an oracle
\* mapping, the keyword rules of linkConcepts or the rules of processFinCL.
C9_AsStated ==
  Linked =>
    \A k \in 1..Len(linkedEntities) :
      linkedEntities[k].xbrlTag # NullObject =>
        ExplanationPresent(linkedEntities[k])

\* C10: when GEMINI_API_KEY is not set, or linkConcepts throws, processFinCL
\* makes no oracle call and builds no batch, tags every entity by the
\* reduced rules of its catch block, saves one FinCL result with these tags
\* and responds 200 with success; it never responds with an error.
C10_SecondaryFallbackSucceeds ==
  (~env.GEMINI_API_KEY \/ linkPath = "secondary") =>
    /\ linkCalls = 0
    /\ batches = <<>>
    /\ fcResponse.status \in {0, 200}
    /\ Linked =>
         /\ linkPath = "secondary"
         /\ Len(linkedEntities) = Len(entities)
         /\ \A k \in 1..Len(entities) :
              linkedEntities[k].xbrlTag =
                ReducedTagOf(descriptionOnly(entities[k]))
    /\ fcPc = "done" =>
         /\ fcResponse = [status |-> 200, success |-> TRUE]
         /\ Len(resultsFile) = 1
         /\ resultsFile[1].taskType = "FinCL"
         /\ \A k \in 1..Len(entities) :
              Predictions[k].xbrlTag = linkedEntities[k].xbrlTag

\* no key, a request of two batches' size: the result is saved and the
\* response sent, some entities tagged by the reduced rules and some not
C10_NoKeyRequestAnswered ==
  /\ ~env.GEMINI_API_KEY
  /\ fcPc = "done"
  /\ Len(entities) = MaxEntities
  /\ fcResponse.success
  /\ \E k \in 1..Len(entities) : Predictions[k].xbrlTag = Tag("us-gaap:Assets", 70)
  /\ \E k \in 1..Len(entities) : Predictions[k].xbrlTag = NullObject

-----------------------------------------------------------------------------
(* Claims on the Evaluation Engine, checked under SpecEval                  *)

Scored(tt) == evPc = "done" /\ taskType = tt /\ metrics # NullObject

CountWhere(results, st) ==
  Cardinality({i \in 1..Len(results) : results[i].status = st})

\* equal type and parsed values closer than 0.01, however they are written
SameTypeNearValue(pred, gold) ==
  LET a == parseFloat(pred.value)
      b == parseFloat(gold.value)
      diff == a.num * b.den - b.num * a.den
  IN /\ pred.type = gold.type
     /\ a # NaN /\ b # NaN
     /\ 100 * (IF diff < 0 THEN -diff ELSE diff) < a.den * b.den

\* C11 (as the specification states it): in an extraction-task evaluation a
\* gold entity is counted as matched if and only if some prediction has its
\* type and a parsed value closer than 0.01 to its own, whatever the two
\* value strings look like.
C11_AsStated ==
  Scored("FinNI") =>
    \A k \in 1..Len(goldStandard) :
      (metrics.detailedResults[k].status = "correct")
        <=> \E p \in 1..Len(predictions) :
              SameTypeNearValue(predictions[p], goldStandard[k])

\* n / d, and 0 when d is 0
Ratio(n, d) == IF d = 0 THEN Frac(0, 1) ELSE Frac(n, d)

\* f is 2pr / (p + r), and 0 when p + r is 0
IsF1(f, p, r) ==
  /\ f \notin {NaN, Infinity}
  /\ IF p.num = 0 /\ r.num = 0 THEN f = Frac(0, 1)
     ELSE f.num * (p.num * r.den + r.num * p.den) = 2 * p.num * r.num * f.den

NIMatchedGold ==
  {k \in 1..Len(goldStandard) :
     \E p \in 1..Len(predictions) :
       _isMatchingEntity(predictions[p], goldStandard[k])}

NIUnmatchedPredictions ==
  {p \in 1..Len(predictions) :
     ~ \E k \in 1..Len(goldStandard) :
         _isMatchingEntity(predictions[p], goldStandard[k])}

\* C12: with TP the gold entities that have a matching prediction, FN the
\* other gold entities and FP the predictions that match no gold entity,
\* evaluateFinNIPredictions returns precision TP/(TP+FP), recall TP/(TP+FN),
\* accuracy TP/|gold| and f1 2PR/(P+R), each 0 when its denominator is 0.
C12_MetricFormulas ==
  Scored("FinNI") =>
    LET TP == Cardinality(NIMatchedGold)
        FN == Len(goldStandard) - TP
        FP == Cardinality(NIUnmatchedPredictions)
    IN /\ metrics.precision = Ratio(TP, TP + FP)
       /\ metrics.recall = Ratio(TP, TP + FN)
       /\ metrics.accuracy = Ratio(TP, Len(goldStandard))
       /\ IsF1(metrics.f1Score, metrics.precision, metrics.recall)

\* an empty gold standard was scored against predictions: accuracy and
\* recall are 0
C12_EmptyGoldScored ==
  /\ Scored("FinNI")
  /\ goldStandard = <<>>
  /\ predictions # <<>>
  /\ metrics.accuracy = Frac(0, 1)
  /\ metrics.recall = Frac(0, 1)

CLMatchedGold ==
  {k \in 1..Len(goldStandard) :
     \E p \in 1..Len(predictions) :
       conceptOf(predictions[p]) = conceptOf(goldStandard[k])}

CLUnmatchedPredictions ==
  {p \in 1..Len(predictions) :
     ~ \E k \in 1..Len(goldStandard) :
         conceptOf(predictions[p]) = conceptOf(goldStandard[k])}

\* C13 (as the specification states it): in a linking-task evaluation a gold
\* item is counted as matched if and only if some prediction has its
\* xbrlTag.concept, and precision is TP/(TP+FP) with TP the matched gold
\* items and FP the predictions that match no gold item.
C13_AsStated ==
  Scored("FinCL") =>
    /\ \A k \in 1..Len(goldStandard) :
         (metrics.detailedResults[k].status = "correct") <=> k \in CLMatchedGold
    /\ metrics.precision =
         Ratio(Cardinality(CLMatchedGold),
               Cardinality(CLMatchedGold) + Cardinality(CLUnmatchedPredictions))

\* C14 (as the specification states it): for both task types detailedResults
\* holds one entry for each gold item, then one false-positive entry for
\* each prediction that matches no gold item, and no other entry.
C14_AsStated ==
  evPc = "done" /\ metrics # NullObject =>
    LET unmatched == IF taskType = "FinNI" THEN NIUnmatchedPredictions
                     ELSE CLUnmatchedPredictions
        results == metrics.detailedResults
    IN /\ Len(results) = Len(goldStandard) + Cardinality(unmatched)
       /\ \A k \in 1..Len(goldStandard) :
            /\ results[k].actual = goldStandard[k]
            /\ results[k].status # "false_positive"
       /\ \A p \in unmatched :
            \E i \in (Len(goldStandard) + 1)..Len(results) :
              /\ results[i].status = "false_positive"
              /\ results[i].predicted = predictions[p]

\* C15: a request whose task type is neither 'FinNI' nor 'FinCL' is answered
\* with an error at once: no metrics are computed, no result is saved and
\* no further step of the request follows.
C15_UnknownTaskTypeFails ==
  evPc = "done" /\ taskType \notin {"FinNI", "FinCL"} =>
    /\ evResponse.status = 500
    /\ evResponse.success = FALSE
    /\ evResponse.error = "Invalid task type"
    /\ metrics = NullObject
    /\ goldStandard = <<>>
    /\ resultsFile = <<>>
    /\ ~ ENABLED NextEval

\* a request with the task type 'Extraction' was answered
C15_UnknownTaskTypeAnswered ==
  /\ evPc = "done"
  /\ taskType = "Extraction"
  /\ predictions # <<>>
  /\ evResponse.status = 500

-----------------------------------------------------------------------------
(* Claims on the Pipeline Orchestrator, checked under SpecPipeline          *)

\* the handler of the request is between its start and its answer
RunInFlight(r) == runs[r].pc \in {"oracle", "save", "link", "status"}

RunEnded(r) == runs[r].pc \in {"responded", "closed"} /\ runs[r].response = 200

StatusOf(id) ==
  IF getReport(reports, id) = 0 THEN "none"
  ELSE reports[getReport(reports, id)].status

Terminal == {"completed", "failed"}

\* C16 (as the specification states it): the stored status of a document
\* is 'processing' for as long as a run on it is in flight, and a run that
\* stores 'completed' or 'failed' replaces the status 'processing'.
C16_AsStated ==
  \A r \in Runs :
    /\ RunInFlight(r) => StatusOf(runs[r].reportId) = "processing"
    /\ RunEnded(r) => runs[r].overwrote = "processing"

\* C17: a stored status that is 'completed' or 'failed' is not changed by
\* any step of any processFinNI request, however many are sent for the
\* report and however they end.
C17_TerminalStatusKept ==
  [][\A i \in 1..Len(reports) :
       reports[i].status \in Terminal => reports'[i].status = reports[i].status]_vars

\* a request sent for a report that was 'completed' has run to its end,
\* along another path than the run before it
C17_CompletedReportRunAgain ==
  \E r \in Runs :
    /\ RunEnded(r)
    /\ runs[r].overwrote = "completed"
    /\ StatusOf(runs[r].reportId) = "completed"
    /\ \E q \in Runs : /\ RunEnded(q)
                       /\ runs[q].reportId = runs[r].reportId
                       /\ runs[q].link # runs[r].link

\* C18 (as the specification states it): no two runs on the same report
\* are in flight at the same time.
C18_AsStated ==
  \A r, q \in Runs :
    r # q /\ RunInFlight(r) /\ RunInFlight(q)
      => runs[r].reportId # runs[q].reportId

\* C19 (as the specification states it): a run whose processFinCL request
\* failed leaves the report with the status 'failed'.
C19_AsStated ==
  \A r \in Runs :
    RunEnded(r) /\ runs[r].link = "threw"
      => StatusOf(runs[r].reportId) = "failed"

\* C20 (as the specification states it): every run that has started is
\* answered in the end, with its report 'completed' or 'failed'.
C20_AsStated ==
  \A r \in Runs :
    RunInFlight(r) ~> (/\ runs[r].pc \in {"responded", "closed"}
                       /\ StatusOf(runs[r].reportId) \in Terminal)

\* C21: a processFinNI request for a reportId that reports.json does not
\* hold is answered 404 as its first step: the run never reaches the
\* oracle, saves no result and stores no status.
C21_UnknownReportRejected ==
  \A r \in Runs :
    runs[r].pc \notin {"idle", "posted"}
      /\ getReport(reports, runs[r].reportId) = 0
      => /\ runs[r].pc = "responded"
         /\ runs[r].response = 404
         /\ runs[r].source = "none"
         /\ runs[r].attempt = 0
         /\ runs[r].link = "none"
         /\ runs[r].overwrote = "none"
         /\ \A i \in 1..Len(resultsFile) :
              resultsFile[i].reportId # runs[r].reportId

\* a request for an unknown reportId was answered while a report is stored
C21_UnknownReportAnswered ==
  \E r \in Runs :
    /\ runs[r].pc = "responded"
    /\ runs[r].response = 404
    /\ reports # <<>>

\* C21 (as the specification states it): after a request for an unknown
\* reportId the document is stored with the status 'failed'.
C21_AsStated ==
  \A r \in Runs :
    runs[r].response = 404 => StatusOf(runs[r].reportId) = "failed"

-----------------------------------------------------------------------------
(* Further claims on the Rule-Based Extractor, checked under SpecExtract    *)

\* the value, type and unit of the entities
ValueTypeUnit(es) ==
  [i \in 1..Len(es) |-> <<es[i].value, es[i].type, es[i].unit>>]

\* C22 (as the specification states it): with the oracle disabled the text
\* "Revenue was $1,234.56 and grew 12.5% to 1,000,000 shares outstanding"
\* yields exactly three entities: monetary 1234.56 with unit $, percentage
\* 12.5 with unit % and 1000000 typed shares; the literals of the monetary
\* and the percentage pass are not emitted again as plain numbers.
C22_AsStated ==
  /\ niPc = "returned"
  /\ niSource = "local"
  /\ text = "Revenue was $1,234.56 and grew 12.5% to 1,000,000 shares outstanding"
  => ValueTypeUnit(niResult.entities) =
       << <<"1234.56", "monetary", "$">>,
          <<"12.5", "percentage", "%">>,
          <<"1000000", "shares", "shares">> >>

\* the matches of the three passes, computed once per text
PassesOf ==
  {<<t, MoneyMatches(t), PctMatches(t), NumMatches(t)>> : t \in Texts}

\* the entities the three passes push for the text, before the dedup
CandidatesOfText ==
  LET p == CHOOSE x \in PassesOf : x[1] = text
  IN Pushed(text, p[2], p[3], p[4])

RuleBasedReturned == niPc = "returned" /\ niSource \in {"local", "fallback"}

SamePair(a, b) == a.value = b.value /\ a.type = b.type

InTextOrder(ms) ==
  \A i, j \in 1..Len(ms) : i < j => ms[i].end <= ms[j].start

\* C24: the entities the Rule-Based Extractor returns hold no (value, type)
\* pair twice; they are, in candidate order, the first candidate of each
\* pair; and the candidates are the monetary matches, then the percentage
\* matches, then the plain-number matches, each in text order.
C24_FirstOfEachPairKept ==
  RuleBasedReturned =>
    LET p == CHOOSE x \in PassesOf : x[1] = text
        cands == CandidatesOfText
        es == niResult.entities
        first == {i \in 1..Len(cands) :
                    \A j \in 1..(i - 1) : ~ SamePair(cands[j], cands[i])}
        nth(k) == CHOOSE i \in first : Cardinality({j \in first : j < i}) = k - 1
    IN /\ \A i, j \in 1..Len(es) : i < j => ~ SamePair(es[i], es[j])
       /\ Len(es) = Cardinality(first)
       /\ \A k \in 1..Len(es) : es[k] = cands[nth(k)]
       /\ InTextOrder(p[2]) /\ InTextOrder(p[3]) /\ InTextOrder(p[4])
       /\ Len(cands) = Len(p[2]) + Len(p[3]) + Len(p[4])
       /\ \A i \in 1..Len(cands) :
            /\ i <= Len(p[2]) <=> cands[i].type = "monetary"
            /\ (i > Len(p[2]) /\ i <= Len(p[2]) + Len(p[3]))
                 <=> cands[i].type = "percentage"

\* a text with the monetary value 1200 twice was extracted: the first one,
\* in USD, is kept
C24_SecondOccurrenceDropped ==
  /\ RuleBasedReturned
  /\ text = "FY 2023 revenue USD 1,200 and EUR 1,200"
  /\ Len(niResult.entities) < Len(CandidatesOfText)
  /\ niResult.entities[1].value = "1200"
  /\ niResult.entities[1].unit = "USD"
  /\ CandidatesOfText[2].unit = "EUR"

\* C25: the dedup step is idempotent: applied to the entities the
\* Rule-Based Extractor returned, it returns them unchanged, in the same
\* order.
C25_DedupIdempotent ==
  RuleBasedReturned => dedup(niResult.entities, {}) = niResult.entities

\* the dedup has dropped a candidate and kept more than one entity
C25_DedupHadWork ==
  /\ RuleBasedReturned
  /\ Len(niResult.entities) > 1
  /\ Len(niResult.entities) < Len(CandidatesOfText)
  /\ text = "12 units, 12 units and 3.5x as of Q3"

-----------------------------------------------------------------------------
(* Claims on the retry loops                                               *)

RetryStep ==
  /\ linkAttempt' <= MAX_RETRIES
  /\ linkPath' = "secondary" => ~ env.GEMINI_API_KEY
  /\ linkCalls' # linkCalls =>
       /\ linkCalls' = linkCalls + 1
       /\ lastTry'.attempt = linkAttempt
       /\ linkAttempt \in 1..MAX_RETRIES
       /\ lastTry'.accepted =>
            /\ outcomes' = Append(outcomes, "accepted")
            /\ linkDelays' = linkDelays
            /\ fcPc' \in {"attempt", "linked"}
            /\ fcPc' = "attempt" => linkAttempt' = 1 /\ Len(batches') = Len(batches) + 1
       /\ ~ lastTry'.accepted /\ linkAttempt < MAX_RETRIES =>
            /\ linkDelays' = Append(linkDelays, (2 ^ linkAttempt) * 1000)
            /\ fcPc' = "backoff"
            /\ outcomes' = outcomes
            /\ allMappings' = allMappings
            /\ batches' = batches
       /\ ~ lastTry'.accepted /\ linkAttempt = MAX_RETRIES =>
            /\ linkDelays' = linkDelays
            /\ outcomes' = Append(outcomes, "exhausted")
            /\ allMappings' = allMappings
            /\ fcPc' \in {"attempt", "linked"}
            /\ fcPc' = "linked" => linkPath' = "oracle"
  /\ fcPc = "backoff" /\ fcPc' # "backoff" =>
       /\ fcPc' = "attempt"
       /\ linkAttempt' = linkAttempt + 1
       /\ batches' = batches
       /\ linkCalls' = linkCalls

\* C27: linkConcepts makes at most MAX_RETRIES = 3 attempts on a batch;
\* failed attempt number n is followed by a wait of 2^n * 1000 ms (2000,
\* then 4000) and the third by none; an accepted response ends the batch;
\* when the third attempt fails the batch adds no mapping, the loop goes on
\* with the next batch or linkConcepts returns, and nothing is thrown.
\* (SpecLink)
C27_RetryTiming == [][RetryStep]_vars

\* a request of one batch whose three attempts failed: linkConcepts
\* returned, after waits of 2000 ms and 4000 ms, with no oracle mapping
C27_BatchExhausted ==
  /\ fcPc = "linked"
  /\ linkPath = "oracle"
  /\ outcomes = <<"exhausted">>
  /\ linkCalls = 3
  /\ linkDelays = <<2000, 4000>>
  /\ allMappings = <<>>
  /\ entities # <<>>

-----------------------------------------------------------------------------
(* Further claims on linkConcepts, checked under SpecLink                   *)

\* the mappings the response to the last attempt contributed, re-indexed
LastBatchMappings ==
  IF lastTry.accepted
    THEN tryBatch(lastTry.resp, BatchLen(lastTry.batch),
                  lastTry.batch.batchStart).mappings
    ELSE <<>>

\* C28 (as the specification states it): the response to one batch changes
\* the tags of that batch's entities only.  For a request of two batches:
\* every entity of the second batch is tagged by the second batch's own
\* accepted response, or by the keyword rules when there is none, whatever
\* the response to the first batch was.
C28_AsStated ==
  (Linked /\ linkPath = "oracle" /\ Len(batches) = 2) =>
    \A k \in (lastTry.batch.batchStart + 1)..lastTry.batch.batchEnd :
      /\ linkedEntities[k].xbrlTag =
           applyMapping(entities[k], findMapping(LastBatchMappings, k - 1)).xbrlTag
      /\ linkedEntities[k].mappingExplanation =
           applyMapping(entities[k],
                        findMapping(LastBatchMappings, k - 1)).mappingExplanation

\* the rules of the chain of linkConcepts that hold for each description,
\* by their position in the chain
HoldingRules ==
  {<<d, {i \in 1..Len(EnhancedRules) :
           RuleHolds(EnhancedRules[i], toLowerCase(d))}>> : d \in LinkTexts}

HoldingRulesOf(d) == (CHOOSE p \in HoldingRules : p[1] = d)[2]

Unmapped(k) == findMapping(allMappings, k - 1) = NullObject

\* C29: an entity without an oracle mapping is tagged by the keyword rules:
\* of the rules that hold for its lower-cased description (its value when
\* the description is empty), the one that comes first in the chain gives the
\* concept, with confidence 0.6 and the explanation "Rule-based mapping
\* (fallback)"; when no rule holds the tag is null and the explanation is
\* "No suitable US-GAAP mapping found".
C29_FirstMatchingRuleDecides ==
  (Linked /\ linkPath = "oracle") =>
    \A k \in 1..Len(entities) :
      Unmapped(k) =>
        LET holding == HoldingRulesOf(descriptionOrValue(entities[k]))
            first == CHOOSE i \in holding : \A j \in holding : i <= j
        IN IF holding = {}
             THEN /\ linkedEntities[k].xbrlTag = NullObject
                  /\ linkedEntities[k].mappingExplanation =
                       "No suitable US-GAAP mapping found"
             ELSE /\ linkedEntities[k].xbrlTag = EnhancedRules[first].tag
                  /\ linkedEntities[k].xbrlTag.confidence = 60
                  /\ linkedEntities[k].mappingExplanation =
                       "Rule-based mapping (fallback)"

\* linkConcepts returned with unmapped entities of three kinds: one for
\* which two rules hold, one for which none holds, and one whose empty
\* description made the chain read the value
C29_SeveralRulesHold ==
  /\ Linked /\ linkPath = "oracle"
  /\ \E k \in 1..Len(entities) :
       /\ Unmapped(k)
       /\ Cardinality(HoldingRulesOf(descriptionOrValue(entities[k]))) >= 2
  /\ \E k \in 1..Len(entities) :
       /\ Unmapped(k)
       /\ entities[k].description # ""
       /\ HoldingRulesOf(descriptionOrValue(entities[k])) = {}
  /\ \E k \in 1..Len(entities) :
       /\ Unmapped(k)
       /\ entities[k].description = ""
       /\ linkedEntities[k].xbrlTag = NullObject

-----------------------------------------------------------------------------
(* Normalization of the oracle's entities, checked under SpecExtract        *)

\* the entities array of the oracle response identifyNumericEntities parsed
ParsedEntities == lastResp.body.doc.entities.array

\* C30 (as the specification states it): the entity returned for an oracle
\* entity has the type in lower case, the value without commas, confidence
\* 0.9 exactly when the oracle entity has no confidence field and the
\* oracle's confidence otherwise (any value from 0 to 1), and every other
\* field as the oracle gave it.
C30_AsStated ==
  (niPc = "returned" /\ niSource = "oracle") =>
    /\ Len(niResult.entities) = Len(ParsedEntities)
    /\ \A k \in 1..Len(ParsedEntities) :
         LET given == ParsedEntities[k]
             normalized == niResult.entities[k]
         IN /\ normalized.confidence =
                 IF "confidence" \in DOMAIN given THEN given.confidence ELSE 90
            /\ "type" \in DOMAIN given =>
                 normalized.type = toLowerCase(given.type)
            /\ "value" \in DOMAIN given =>
                 normalized.value = stripCommas(given.value)
            /\ \A f \in DOMAIN given \ {"confidence", "type", "value"} :
                 normalized[f] = given[f]

-----------------------------------------------------------------------------
(* Claims on the result store, checked under SpecStorage                    *)

SaveReturned(c) == saves[c].pc = "returned"

Occurrences(results, result) ==
  Cardinality({j \in 1..Len(results) : results[j] = result})

\* C23 (as the specification states it): results.json is append-only.
\* When fs reported no error, the result of every saveResult call that has
\* returned is in the file exactly once, as it was returned, and is among
\* the results getResultsByReportId gives for its report, however the calls
\* were interleaved.
C23_AsStated ==
  ~fsFailed =>
    \A c \in Calls :
      SaveReturned(c) =>
        /\ Occurrences(resultsFile, saves[c].newResult) = 1
        /\ Occurrences(getResultsByReportId(resultsFile,
                                            saves[c].newResult.reportId),
                       saves[c].newResult) = 1

-----------------------------------------------------------------------------
(* Claims on the entity record, checked under SpecExtract                   *)

ValidTypes == {"monetary", "percentage", "ratio", "shares", "date", "count"}

\* C31 (as the specification states it): every entity identifyNumericEntities
\* returns, from the oracle's answer as well as from the rules, has a type
\* that is one of monetary, percentage, ratio, shares, date and count.
C31_AsStated ==
  niPc = "returned" =>
    \A k \in 1..Len(niResult.entities) :
      niResult.entities[k].type \in ValidTypes

\* C32 (as the specification states it): every entity of the Rule-Based
\* Extractor has a unit that is a currency symbol or code, '%', 'shares' or
\* 'unknown', never null, the plain numbers typed count or date included.
C32_AsStated ==
  RuleBasedReturned =>
    \A k \in 1..Len(niResult.entities) :
      niResult.entities[k].unit \in
        {"$", "USD", "EUR", "GBP", "%", "shares", "unknown"}

-----------------------------------------------------------------------------
(* Further claims on the Pipeline Orchestrator, under SpecPipeline          *)

\* the run has passed saveResult of processFinNI
ExtractionSaved(r) ==
  \/ runs[r].pc \in {"link", "status"}
  \/ runs[r].pc \in {"responded", "closed"} /\ runs[r].response = 200

SavedOf(id, task) ==
  {i \in 1..Len(resultsFile) :
     resultsFile[i].reportId = id /\ resultsFile[i].taskType = task}

\* C33: the stages of a run follow one another.  The processFinCL request
\* of a run is sent only when identifyNumericEntities has returned (from the
\* oracle, or from the rules after all its attempts) and the FinNI result of
\* the run is in results.json; the status is stored and the request answered
\* only when the processFinCL request has been answered or has failed.
C33_StagesInSequence ==
  /\ \A r \in Runs :
       /\ ExtractionSaved(r) =>
            /\ runs[r].source # "none"
            /\ runs[r].source = "fallback" => runs[r].attempt = Retries
       /\ runs[r].link # "none" => ExtractionSaved(r) /\ runs[r].pc # "link"
       /\ runs[r].pc = "link" => runs[r].link = "none"
       /\ runs[r].response = 200 => runs[r].link # "none"
  /\ \A id \in 1..Len(reports) :
       /\ Cardinality(SavedOf(id, "FinNI")) =
            Cardinality({r \in Runs : runs[r].reportId = id /\ ExtractionSaved(r)})
       /\ Cardinality(SavedOf(id, "FinCL")) =
            Cardinality({r \in Runs : runs[r].reportId = id
                                        /\ runs[r].link = "answered"})

\* a run went through every attempt of the oracle, the rules, the save and
\* a failed processFinCL request, and stored its status
C33_RunThroughFallbackAndFailedLink ==
  \E r \in Runs :
    /\ runs[r].response = 200
    /\ runs[r].source = "fallback"
    /\ runs[r].link = "threw"
    /\ Cardinality(SavedOf(runs[r].reportId, "FinNI")) >= 1

\* a step of identifyNumericEntities (an answer of the oracle) or of the
\* processFinCL request of some run
EngineStep ==
  \E r \in Runs : runs[r].pc \in {"oracle", "link"} /\ runs'[r] # runs[r]

\* C34: the stored status of a document is written by uploadFile and
\* processFinNI only: a step of identifyNumericEntities or of processFinCL
\* (linkConcepts included) leaves reports.json as it is, and every step
\* that changes it is a step of uploadFile or the status update of
\* processFinNI.
C34_EnginesLeaveStatus ==
  [][/\ EngineStep => reports' = reports
     /\ reports' # reports =>
          \E r \in Runs : /\ runs[r].pc \in {"idle", "status", "responded"}
                          /\ runs'[r].pc \in {"posted", "responded", "closed"}]_vars

\* both engines of a run have returned, the second having saved its
\* result, and the report still has the status uploadFile stored
C34_EnginesDoneStatusUntouched ==
  \E r \in Runs :
    /\ runs[r].pc = "status"
    /\ runs[r].source = "oracle"
    /\ runs[r].link = "answered"
    /\ StatusOf(runs[r].reportId) = "uploaded"

-----------------------------------------------------------------------------
(* Claims on the merge of batch responses, checked under SpecLink           *)

\* the response is no JSON text
Unparseable(resp) ==
  IF resp.transport THEN TRUE ELSE ~jsonParses(stripFences(resp))

\* the mappings array the response carries, <<>> when it carries none
ResponseMappings(resp) ==
  IF Unparseable(resp) THEN <<>>
  ELSE IF resp.body.doc = NullObject THEN <<>>
  ELSE IF "mappings" \notin DOMAIN resp.body.doc THEN <<>>
  ELSE IF "array" \notin DOMAIN resp.body.doc.mappings THEN <<>>
  ELSE resp.body.doc.mappings.array

BelowThreshold(resp, b) == 10 * Len(ResponseMappings(resp)) < 7 * BatchLen(b)

\* C35: a response that is unparseable or has fewer mappings than 70% of
\* its batch is rejected, and a rejected response adds nothing to
\* allMappings; allMappings grows only by the re-indexed mappings of a
\* response that was accepted, which ends the attempts on its batch; and
\* every tag of the output that is not from the keyword rules is the tag of
\* a mapping of allMappings.
C35_OnlyAcceptedMerged ==
  [][/\ allMappings' # allMappings => linkCalls' # linkCalls
     /\ linkCalls' # linkCalls =>
          /\ (Unparseable(lastTry'.resp) \/ BelowThreshold(lastTry'.resp, lastTry'.batch))
               => ~lastTry'.accepted
          /\ IF lastTry'.accepted
               THEN /\ allMappings' =
                         allMappings \o adjustedMappings(ResponseMappings(lastTry'.resp),
                                                         lastTry'.batch.batchStart)
                    /\ outcomes' = Append(outcomes, "accepted")
               ELSE allMappings' = allMappings
     /\ (Linked' /\ linkPath' = "oracle") =>
          \A k \in 1..Len(linkedEntities') :
            linkedEntities'[k].mappingExplanation \notin
                {"Rule-based mapping (fallback)", "No suitable US-GAAP mapping found"}
              => \E j \in 1..Len(allMappings') :
                   /\ allMappings'[j].entityId = k - 1
                   /\ allMappings'[j].xbrlTag = linkedEntities'[k].xbrlTag]_vars

\* linkConcepts returned after its last response, which carried mappings
\* for fewer than 70% of a full batch, was rejected, and nothing was merged
C35_RejectedWithMappings ==
  /\ Linked /\ linkPath = "oracle"
  /\ Len(entities) >= BATCH_SIZE
  /\ lastTry # [none |-> TRUE]
  /\ ~lastTry.accepted
  /\ Len(ResponseMappings(lastTry.resp)) > 0
  /\ allMappings = <<>>

-----------------------------------------------------------------------------
(* Further claims on the Evaluation Engine, checked under SpecEval          *)

\* the number x is at least 0 and at most 1
InUnitRange(x) ==
  IF "num" \in DOMAIN x THEN 0 <= x.num /\ x.num <= x.den ELSE FALSE

\* C36 (as the specification states it): the precision, recall, f1Score
\* and accuracy that evaluateFinNIPredictions and evaluateFinCLPredictions
\* return are all between 0 and 1, for every list of predictions and every
\* gold list, also when several gold items match one prediction.
C36_AsStated ==
  (evPc = "done" /\ metrics # NullObject) =>
    /\ InUnitRange(metrics.precision)
    /\ InUnitRange(metrics.recall)
    /\ InUnitRange(metrics.f1Score)
    /\ InUnitRange(metrics.accuracy)

-----------------------------------------------------------------------------
(* Claims on uploadFile, checked under SpecPipeline                         *)

\* uploadFile of run r sends its response in this step
UploadResponds(r) ==
  /\ runs[r].caller = "upload"
  /\ runs[r].pc = "responded"
  /\ runs'[r].pc = "closed"

\* C37 (as the specification states it): when uploadFile sends its
\* response, the request has created exactly one report in reports.json, and
\* the status in the response is the status stored for the report's id.
C37_AsStated ==
  [][\A r \in Runs :
       UploadResponds(r) =>
         /\ Len(reports') = 1
         /\ StatusOf(runs[r].reportId)' = uploadResponseData(runs'[r]).status]_vars

-----------------------------------------------------------------------------
(* Claims on accounts and sessions, checked under SpecAuth                  *)

ProtectedOps == {"getMe", "logout", "changePassword", "deleteAccount"}

\* this step answers a request to a protected route
ProtectedRequest == authTicks' = authTicks /\ lastAuth'.op \in ProtectedOps

\* C38 (as the specification states it): authMiddleware lets a request
\* through only when a session is stored for its token and has not expired
\* and the token's user exists and is verified; and a request with a token
\* that was logged out, or whose user deleted the account, is answered 401
\* ever after.
C38_AsStated ==
  [][ProtectedRequest =>
       /\ lastAuth'.status # 401 =>
            /\ \E s \in sessions : s.token = lastAuth'.token /\ s.expiresAt >= authTime
            /\ users[lastAuth'.token.userId] # NoUser
            /\ users[lastAuth'.token.userId].isVerified
       /\ lastAuth'.token \in revoked => lastAuth'.status = 401]_vars

\* C39: a user becomes verified only in a verifyOTP answered 200 whose code
\* is the one stored for the user at that moment and has not expired (so a
\* code replaced by resendOTP or by a repeated signup no longer verifies);
\* that step clears the stored code; a user is created unverified and a
\* verified user never becomes unverified again.
C39_VerifiedOnlyByStoredOtp ==
  [][\A u \in UserIds :
       /\ (users[u] = NoUser /\ users'[u] # NoUser) => ~users'[u].isVerified
       /\ (users[u] # NoUser /\ users'[u] # NoUser) =>
            /\ users[u].isVerified => users'[u].isVerified
            /\ (~users[u].isVerified /\ users'[u].isVerified) =>
                 /\ lastAuth'.op = "verifyOTP"
                 /\ lastAuth'.user = u
                 /\ lastAuth'.status = 200
                 /\ lastAuth'.otp = users[u].otp
                 /\ ~otpExpired(users[u], authTime)
                 /\ users'[u].otp = Null
                 /\ users'[u].otpExpiry = NullObject
            /\ (lastAuth'.op = "verifyOTP" /\ lastAuth'.user = u
                  /\ authTicks' = authTicks /\ ~users[u].isVerified
                  /\ lastAuth'.otp # users[u].otp) => users' = users]_vars

\* a user has been verified, after the clock moved, with the second code
C39_VerifiedWithLaterCode ==
  /\ lastAuth.op = "verifyOTP"
  /\ lastAuth.status = 200
  /\ lastAuth.otp = "222222"
  /\ authTime > OtpLifetime
  /\ users[lastAuth.user] # NoUser
  /\ users[lastAuth.user].isVerified
  /\ users[lastAuth.user].otp = Null

\* C40 (as the specification states it): for a user who has a password, a
\* request replaces the password or is handed a session token of that user
\* only if it is a login or a changePassword that carried the current
\* password; and setPassword is answered 200 only for a verified user who
\* has no password yet.
C40_AsStated ==
  [][\A u \in UserIds :
       (authTicks' = authTicks /\ users[u] # NoUser) =>
         /\ (/\ users[u].password # Null
             /\ \/ users'[u] # NoUser /\ users'[u].password # users[u].password
                \/ lastAuth'.issued # NoToken /\ lastAuth'.issued.userId = u) =>
              /\ lastAuth'.op \in {"login", "changePassword"}
              /\ compare(lastAuth'.password, users[u].password)
         /\ (lastAuth'.op = "setPassword" /\ lastAuth'.user = u
               /\ lastAuth'.status = 200) =>
              /\ users[u].isVerified
              /\ users[u].password = Null]_vars

=============================================================================
